---------------------------- MODULE Spec2Model ----------------------------
(***************************************************************************)
(* Rift-Browser rust_engine: the DOM arena (dom/node.rs), the DOM          *)
(* mutation API (ffi/functions/dom_api.rs) and the block/inline layout     *)
(* traversal (layout/layout.rs), as a state machine.                       *)
(*                                                                         *)
(* Every dom_* function starts with ARENA.lock() and keeps that guard to   *)
(* its last line, and every caller of LayoutEngine::layout passes a locked *)
(* arena, so one operation runs on an arena at a time.  Operations that    *)
(* take a fixed number of node guards are single actions; the recursive    *)
(* ones (layout, deep_clone) advance one guard acquisition per step.       *)
(***************************************************************************)
EXTENDS Integers, Sequences, FiniteSets, TLC

\* ---------------------------------------------------------------- bounds
\* Highest id NODE_ID_COUNTER hands out in the model.
MaxId == 3
\* Longest child list an operation is allowed to produce in the model.
MaxChildren == 2
\* Number of mutating API calls (append, insert, replace, remove, set_*) a run
\* makes after which only creation, cloning and layout go on.
MaxOps == 2
\* The stand-in for LayoutEngine::MAX_DOM_NODES, which is 200_000 in the
\* program: a node count the trees of the model can exceed.
MAX_DOM_NODES == 2
\* create_element calls made on one script runtime.
MaxElements == 2
\* Rules of a stylesheet.
MaxRules == 2
\* Characters of a text handed to a parsing function.
MaxLen == 9
\* Nodes of a document the DOM builder fills, its Document root included.
MaxDocNodes == 6
\* LayoutEngine::MAX_LAYOUT_BOXES (100_000 in the source), scaled.
MAX_LAYOUT_BOXES == 3
\* Digits of one number of such a text.  An f32 holds every integer below
\* 2^24 exactly, so a number of up to seven digits parses to itself.
MaxDigits == 3

\* ------------------------------------------------------------- constants
\* Option::None of DOMNode.parent; dom_get_parent_node reports it as 0.
None == 0

\* The ids callers pass.  Creation stops at MaxId, so MaxId + 1 names no node
\* unless a deep clone, whose recursion draws past MaxId, has made it.
Ids == 1..(MaxId + 1)
\* NodeType: Document, Text, Element(tag).  An element is named by its tag.
Kinds == {"document", "text", "div", "body"}
\* text_content values, as sequences of characters: empty (DOMNode::new),
\* blank, and visible text.
Texts == {<<>>, <<" ">>, <<"H", "i">>}

VARIABLES
    nodes,        \* DOMArena.nodes: id -> DOMNode, for the ids present
    counter,      \* NODE_ID_COUNTER
    assigned,     \* history: the ids handed out by fetch_add, in order
    arenaLock,    \* the arena Mutex: "free", its holder, or "poisoned"
    poisoned,     \* node Mutexes poisoned by a panic of their holder
    mut,          \* the mutator thread (a dom_* call, add_child)
    cl,           \* the deep_clone recursion of a running dom_clone_node
    lay,          \* the layout thread (LayoutEngine::layout)
    boxes,        \* Vec<LayoutBox> built by the running / last layout pass
    op,           \* the last operation that was called
    nops,         \* number of mutating calls made so far
    lastAttach,   \* history: parent targeted by the last successful attach
    replacedOut,  \* history: node was last detached as old of replace_child
    root_id,      \* JavaScriptRuntime.root_id
    element_counter,  \* JavaScriptRuntime.element_counter
    event_queue,  \* JavaScriptRuntime.event_queue
    styles,       \* a StyleMap: the self of set_property and merge
    other,        \* a second StyleMap: the other of merge
    stylesheet,   \* Stylesheet.rules: Vec<CssRule>
    text,         \* the &str handed to a parsing function
    parsed,       \* what the last parsing call returned
    parser,       \* a CSSParser at work on an inline style: input, position
    doc,          \* the DOMArena build_dom_enhanced fills
    open,         \* build_dom_enhanced's stack of open element ids
    viewport,     \* LayoutEngine.viewport_width, viewport_height
    flow,         \* the Vec<LayoutBox> the last layout() of doc returned
    root_guard    \* the guard of doc's Document root, as the builder's caller has it

\* The state of the components around the arena; the arena API leaves it alone.
scriptVars == <<root_id, element_counter, event_queue>>
styleVars == <<styles, other>>
cascadeVars == <<stylesheet>>
parseVars == <<text, parsed, parser>>
flowVars == <<doc, open, viewport, flow, root_guard>>
hostVars == <<scriptVars, styleVars, cascadeVars, parseVars, flowVars>>

\* The arena and the threads that work on it.
arenaVars == <<nodes, counter, assigned, arenaLock, poisoned, mut, cl, lay, boxes,
               nops, lastAttach, replacedOut>>

vars == <<nodes, counter, assigned, arenaLock, poisoned, mut, cl, lay, boxes,
          op, nops, lastAttach, replacedOut, hostVars>>

\* ------------------------------------------------------------- helpers
Range(s) == {s[i] : i \in DOMAIN s}

IndexOf(s, x) ==
    IF x \in Range(s) THEN CHOOSE i \in DOMAIN s : s[i] = x /\ \A j \in 1..(i-1) : s[j] # x
    ELSE 0

InsertAt(s, i, x) == SubSeq(s, 1, i-1) \o <<x>> \o SubSeq(s, i, Len(s))

Retain(s, x) == SelectSeq(s, LAMBDA e : e # x)

\* The sequence s without its i-th element (Vec::remove).
RemoveAt(s, i) == SubSeq(s, 1, i - 1) \o SubSeq(s, i + 1, Len(s))

Present(id) == id \in DOMAIN nodes

\* DOMNode::new: every field but id and node_type starts empty.
DOMNode_new(id, kind) ==
    [id |-> id, node_type |-> kind, children |-> <<>>, parent |-> None,
     text_content |-> <<>>, attributes |-> <<>>, event_listeners |-> <<>>]

\* A load followed by a store of the same value: the add is lost.
fetch_add_lost(c) == c

\* AtomicU32::fetch_add(1, SeqCst): the value the counter holds after the
\* add.  The u32 wraps after 2^32 - 1 draws, which lies beyond every id the
\* model hands out (and beyond TLC's integers).
fetch_add(c) == c + 1

\* DOMArena::add_node
add_node(arena, node) == [i \in (DOMAIN arena) \cup {node.id} |->
                             IF i = node.id THEN node ELSE arena[i]]

\* Set one field of one node of the arena (a write through node.lock()).
SetField(arena, id, f, v) == [arena EXCEPT ![id] = [@ EXCEPT ![f] = v]]

\* StyleMap::default(), on the two of its String fields the model carries.
StyleMap_default == [display |-> "block", color |-> "black"]

\* The last call: its name, whether it took effect, and the id it returned.
NoOp == [name |-> "none", ok |-> FALSE, res |-> 0]
Call(name, ok, res) == [name |-> name, ok |-> ok, res |-> res]

\* The clone recursion: its frames, and as history the source id, the ids
\* present when the call began and the ids of the clones it added.
IdleClone == [pc |-> "idle", stack |-> <<>>, src |-> 0, pre |-> {}, made |-> {}]
\* The layout pass: its frames, the node guards it holds (in the order it
\* took them), the dom argument and the id chosen as layout root.
IdleLayout == [pc |-> "idle", stack |-> <<>>, held |-> <<>>,
               dom |-> DOMNode_new(0, "document"), root |-> 0]

\* std::sync::Mutex::lock on a mutex the calling thread already holds
\* "will not return": the build either deadlocks or panics.
RelockOutcomes == {"blocked", "panicked"}

Init ==
    /\ nodes = <<>>
    /\ counter = 1
    /\ assigned = <<>>
    /\ arenaLock = "free"
    /\ poisoned = {}
    /\ mut = "idle"
    /\ cl = IdleClone
    /\ lay = IdleLayout
    /\ boxes = <<>>
    /\ op = NoOp
    /\ nops = 0
    /\ lastAttach = [i \in Ids |-> None]
    /\ replacedOut = [i \in Ids |-> FALSE]
    /\ root_id = None
    /\ element_counter = 0
    /\ event_queue = <<>>
    /\ styles = StyleMap_default
    /\ other = StyleMap_default
    /\ stylesheet = <<>>
    /\ text = <<>>
    /\ parsed = <<>>
    /\ parser = [input |-> <<>>, position |-> 0, running |-> FALSE, declarations |-> <<>>]
    /\ doc = <<>>
    /\ open = <<>>
    /\ viewport = <<0, 0>>
    /\ flow = <<>>
    /\ root_guard = "free"

\* The calling thread locks a node guard it already holds while it holds the
\* arena guard: it never returns (blocked), or it unwinds (panicked) and
\* poisons the guards it held, the arena's included.
SelfRelock(outcome, heldIds) ==
    /\ mut' = outcome
    /\ arenaLock' = IF outcome = "blocked" THEN "M" ELSE "poisoned"
    /\ poisoned' = IF outcome = "blocked" THEN poisoned ELSE poisoned \cup heldIds

ArenaFree == arenaLock = "free"

\* A mutating call within the run's budget.
Mutating == nops < MaxOps /\ nops' = nops + 1


\* ------------------------------------------------ creation (node.rs, html.rs)
\* DOMNode::new on a thread that works on another arena, or whose node is
\* never added (HTMLParser::parse hands back a bare Document on oversized
\* input): one fetch_add on the shared counter, taken without any lock.
NewNode ==
    /\ UNCHANGED nops
    /\ counter <= MaxId
    /\ counter' = fetch_add(counter)
    /\ assigned' = Append(assigned, counter)
    /\ op' = Call("new", TRUE, counter)
    /\ UNCHANGED <<nodes, arenaLock, poisoned, mut, cl, lay, boxes, lastAttach, replacedOut>>
    /\ UNCHANGED hostVars

\* create(type): DOMNode::new followed by DOMArena::add_node, as the DOM
\* builder does for every token.
Create(kind) ==
    /\ ArenaFree
    /\ UNCHANGED nops
    /\ counter <= MaxId
    /\ counter' = fetch_add(counter)
    /\ assigned' = Append(assigned, counter)
    /\ nodes' = add_node(nodes, DOMNode_new(counter, kind))
    /\ op' = Call("create", TRUE, counter)
    /\ UNCHANGED <<arenaLock, poisoned, mut, cl, lay, boxes, lastAttach, replacedOut>>
    /\ UNCHANGED hostVars

\* ------------------------------------------------ DOMNode::add_child
\* self is the parent node, reached through its guard; the child is looked
\* up after its id was pushed.
add_child(arena, p, c) ==
    LET pushed == SetField(arena, p, "children", Append(arena[p].children, c))
    IN  IF c \in DOMAIN arena /\ c # p THEN SetField(pushed, c, "parent", p) ELSE pushed

AppendChild(p, c) ==
    /\ ArenaFree
    /\ Mutating
    /\ Present(p)
    /\ Len(nodes[p].children) < MaxChildren
    /\ nodes' = add_child(nodes, p, c)
    /\ IF c = p
       THEN /\ \E o \in RelockOutcomes : SelfRelock(o, {p})
            /\ op' = Call("append_child", FALSE, 0)
            /\ UNCHANGED <<lastAttach, replacedOut>>
       ELSE /\ op' = Call("append_child", Present(c), 0)
            /\ lastAttach' = IF Present(c) THEN [lastAttach EXCEPT ![c] = p] ELSE lastAttach
            /\ replacedOut' = IF Present(c) THEN [replacedOut EXCEPT ![c] = FALSE] ELSE replacedOut
            /\ UNCHANGED <<arenaLock, poisoned, mut>>
    /\ UNCHANGED <<counter, assigned, cl, lay, boxes>>
    /\ UNCHANGED hostVars

\* ------------------------------------------------ dom_insert_before
\* The new id goes in after the reference instead of before it.
insert_before_after_ref(arena, p, n, r) ==
    LET kids == arena[p].children
        pos  == IndexOf(kids, r)
        ins  == SetField(arena, p, "children",
                         IF pos # 0 THEN InsertAt(kids, pos + 1, n) ELSE Append(kids, n))
    IN  IF n \in DOMAIN arena /\ n # p THEN SetField(ins, n, "parent", p) ELSE ins

\* The child list is updated and the new node's parent link is left as it was.
insert_before_no_link(arena, p, n, r) ==
    LET kids == arena[p].children
        pos  == IndexOf(kids, r)
    IN  SetField(arena, p, "children",
                 IF pos # 0 THEN InsertAt(kids, pos, n) ELSE Append(kids, n))

insert_before(arena, p, n, r) ==
    LET kids == arena[p].children
        pos  == IndexOf(kids, r)
        ins  == SetField(arena, p, "children",
                         IF pos # 0 THEN InsertAt(kids, pos, n) ELSE Append(kids, n))
    IN  IF n \in DOMAIN arena /\ n # p THEN SetField(ins, n, "parent", p) ELSE ins

InsertBefore(p, n, r) ==
    /\ ArenaFree
    /\ Mutating
    /\ IF ~Present(p)
       THEN /\ op' = Call("insert_before", FALSE, 0)
            /\ UNCHANGED <<nodes, arenaLock, poisoned, mut, lastAttach, replacedOut>>
       ELSE /\ Len(nodes[p].children) < MaxChildren
            /\ nodes' = insert_before(nodes, p, n, r)
            /\ IF n = p
               THEN /\ \E o \in RelockOutcomes : SelfRelock(o, {p})
                    /\ op' = Call("insert_before", FALSE, 0)
                    /\ UNCHANGED <<lastAttach, replacedOut>>
               ELSE /\ op' = Call("insert_before", Present(n), 0)
                    /\ lastAttach' = IF Present(n) THEN [lastAttach EXCEPT ![n] = p] ELSE lastAttach
                    /\ replacedOut' = IF Present(n) THEN [replacedOut EXCEPT ![n] = FALSE] ELSE replacedOut
                    /\ UNCHANGED <<arenaLock, poisoned, mut>>
    /\ UNCHANGED <<counter, assigned, cl, lay, boxes>>
    /\ UNCHANGED hostVars

\* ------------------------------------------------ dom_replace_child
\* The parent's guard is held for the whole body; new is locked first, then
\* old.  A lock on the parent itself does not return.
replace_child(arena, p, n, o) ==
    LET pos   == IndexOf(arena[p].children, o)
        swap  == SetField(arena, p, "children", [arena[p].children EXCEPT ![pos] = n])
        newOk == IF n \in DOMAIN arena /\ n # p THEN SetField(swap, n, "parent", p) ELSE swap
    IN  IF n = p THEN swap
        ELSE IF o \in DOMAIN arena /\ o # p THEN SetField(newOk, o, "parent", None)
        ELSE newOk

ReplaceChild(p, n, o) ==
    /\ ArenaFree
    /\ Mutating
    /\ IF ~Present(p) \/ (Present(p) /\ IndexOf(nodes[p].children, o) = 0)
       THEN /\ op' = Call("replace_child", FALSE, 0)
            /\ UNCHANGED <<nodes, arenaLock, poisoned, mut, lastAttach, replacedOut>>
       ELSE /\ nodes' = replace_child(nodes, p, n, o)
            /\ IF n = p \/ o = p
               THEN /\ \E out \in RelockOutcomes : SelfRelock(out, {p})
                    /\ op' = Call("replace_child", FALSE, 0)
                    /\ lastAttach' = IF n # p /\ Present(n) THEN [lastAttach EXCEPT ![n] = p] ELSE lastAttach
                    /\ replacedOut' = IF n # p /\ Present(n) THEN [replacedOut EXCEPT ![n] = FALSE] ELSE replacedOut
               ELSE /\ op' = Call("replace_child", Present(n), 0)
                    /\ lastAttach' = IF Present(n) THEN [lastAttach EXCEPT ![n] = p] ELSE lastAttach
                    /\ replacedOut' = [i \in Ids |->
                                         IF i = o /\ Present(o) THEN TRUE
                                         ELSE IF i = n /\ Present(n) THEN FALSE
                                         ELSE replacedOut[i]]
                    /\ UNCHANGED <<arenaLock, poisoned, mut>>
    /\ UNCHANGED <<counter, assigned, cl, lay, boxes>>
    /\ UNCHANGED hostVars

\* ------------------------------------------------ dom_remove_node
\* The node leaves its parent's child list and keeps its parent link.
remove_node_keep_link(arena, id) ==
    LET par == arena[id].parent
    IN  IF par # None /\ par \in DOMAIN arena
        THEN SetField(arena, par, "children", Retain(arena[par].children, id))
        ELSE arena

remove_node(arena, id) ==
    LET par   == arena[id].parent
        unlnk == IF par # None /\ par \in DOMAIN arena
                 THEN SetField(arena, par, "children", Retain(arena[par].children, id))
                 ELSE arena
    IN  SetField(unlnk, id, "parent", None)

RemoveNode(id) ==
    /\ ArenaFree
    /\ Mutating
    /\ IF Present(id)
       THEN /\ nodes' = remove_node(nodes, id)
            /\ lastAttach' = [lastAttach EXCEPT ![id] = None]
            /\ replacedOut' = [replacedOut EXCEPT ![id] = FALSE]
            /\ op' = Call("remove", TRUE, 0)
       ELSE /\ op' = Call("remove", FALSE, 0)
            /\ UNCHANGED <<nodes, lastAttach, replacedOut>>
    /\ UNCHANGED <<counter, assigned, arenaLock, poisoned, mut, cl, lay, boxes>>
    /\ UNCHANGED hostVars


\* ------------------------------------------------ DOMNode::remove_child
\* self is the parent, reached through its guard: the first occurrence of
\* the child id leaves its list and the child, when it resolves, loses its
\* parent link, whichever node that link named.
remove_child(arena, p, c) ==
    LET pos == IndexOf(arena[p].children, c)
        cut == SetField(arena, p, "children", RemoveAt(arena[p].children, pos))
    IN  IF pos = 0 THEN arena
        ELSE IF c \in DOMAIN arena /\ c # p THEN SetField(cut, c, "parent", None)
        ELSE cut

\* A removal only shortens a list, so it needs no cap of its own.
RemoveChild(p, c) ==
    /\ ArenaFree
    /\ Present(p)
    /\ nodes' = remove_child(nodes, p, c)
    /\ IF c = p /\ IndexOf(nodes[p].children, c) # 0
       THEN /\ \E o \in RelockOutcomes : SelfRelock(o, {p})
            /\ op' = Call("remove_child", FALSE, 0)
            /\ UNCHANGED <<lastAttach, replacedOut>>
       ELSE /\ op' = Call("remove_child", IndexOf(nodes[p].children, c) # 0, 0)
            /\ IF IndexOf(nodes[p].children, c) # 0 /\ Present(c)
               THEN /\ lastAttach' = [lastAttach EXCEPT ![c] = None]
                    /\ replacedOut' = [replacedOut EXCEPT ![c] = FALSE]
               ELSE UNCHANGED <<lastAttach, replacedOut>>
            /\ UNCHANGED <<arenaLock, poisoned, mut>>
    /\ UNCHANGED <<counter, assigned, cl, lay, boxes, nops>>
    /\ UNCHANGED hostVars


\* ------------------------------------------------ dom_clone_node, deep_clone
\* Guards the mutator holds inside deep_clone: the source root (locked by
\* dom_clone_node) and every node on the recursion path.
CloneHeld == {cl.stack[i].src : i \in DOMAIN cl.stack}

Frame(src, newid) == [src |-> src, newid |-> newid, idx |-> 1, kids |-> <<>>]

\* self.clone() with a fresh id whose child list still holds the source's ids.
deep_clone_alias_children(node, newid, kids) ==
    [node EXCEPT !.id = newid, !.parent = None, !.event_listeners = <<>>]

\* What deep_clone returns for one node once its children are cloned:
\* self.clone() with a fresh id, no parent, the cloned children and no
\* event listeners.
deep_clone_node(node, newid, kids) ==
    [node EXCEPT !.id = newid, !.parent = None, !.children = kids,
                 !.event_listeners = <<>>]

\* The shallow branch of dom_clone_node: node.clone() with a fresh id, no
\* parent and no children.
shallow_clone_node(node, newid) ==
    [node EXCEPT !.id = newid, !.parent = None, !.children = <<>>]

CloneShallow(id) ==
    /\ ArenaFree
    /\ UNCHANGED nops
    /\ counter <= MaxId
    /\ IF Present(id)
       THEN /\ counter' = fetch_add(counter)
            /\ assigned' = Append(assigned, counter)
            /\ nodes' = add_node(nodes, shallow_clone_node(nodes[id], counter))
            /\ op' = Call("clone_shallow", TRUE, counter)
       ELSE /\ op' = Call("clone_shallow", FALSE, 0)
            /\ UNCHANGED <<nodes, counter, assigned>>
    /\ UNCHANGED <<arenaLock, poisoned, mut, cl, lay, boxes, lastAttach, replacedOut>>
    /\ UNCHANGED hostVars

\* dom_clone_node(id, deep = true) up to the first line of deep_clone: the
\* arena and the source are locked and the clone's id is drawn.
CloneStart(id) ==
    /\ ArenaFree
    /\ UNCHANGED nops
    /\ counter <= MaxId
    /\ IF Present(id)
       THEN /\ arenaLock' = "M"
            /\ mut' = "cloning"
            /\ counter' = fetch_add(counter)
            /\ assigned' = Append(assigned, counter)
            /\ cl' = [pc |-> "run", stack |-> <<Frame(id, counter)>>, src |-> id,
                      pre |-> DOMAIN nodes, made |-> {}]
            /\ op' = Call("clone_begin", FALSE, 0)
       ELSE /\ op' = Call("clone_deep", FALSE, 0)
            /\ UNCHANGED <<counter, assigned, arenaLock, mut, cl>>
    /\ UNCHANGED <<nodes, poisoned, lay, boxes, lastAttach, replacedOut>>
    /\ UNCHANGED hostVars

\* One turn of the filter_map closure: look the next child up, lock it and
\* enter deep_clone on it (which draws its id first).
CloneDescend ==
    /\ UNCHANGED nops
    /\ cl.pc = "run"
    /\ LET top == cl.stack[Len(cl.stack)]
           kids == nodes[top.src].children
       IN /\ top.idx <= Len(kids)
          /\ LET c == kids[top.idx]
             IN IF ~Present(c)
                THEN /\ cl' = [cl EXCEPT !.stack[Len(cl.stack)].idx = top.idx + 1]
                     /\ UNCHANGED <<counter, assigned, arenaLock, poisoned, mut>>
                ELSE IF c \in CloneHeld
                THEN /\ \E o \in RelockOutcomes :
                          /\ SelfRelock(o, CloneHeld)
                          /\ cl' = [cl EXCEPT !.pc = o]
                     /\ UNCHANGED <<counter, assigned>>
                ELSE /\ cl' = [cl EXCEPT !.stack = Append(cl.stack, Frame(c, counter))]
                     /\ counter' = fetch_add(counter)
                     /\ assigned' = Append(assigned, counter)
                     /\ UNCHANGED <<arenaLock, poisoned, mut>>
    /\ op' = Call("clone_step", FALSE, 0)
    /\ UNCHANGED <<nodes, lay, boxes, lastAttach, replacedOut>>
    /\ UNCHANGED hostVars

\* deep_clone returns: a child's clone is added to the arena by the parent's
\* closure, the root's clone by dom_clone_node, which then returns its id.
CloneReturn ==
    /\ UNCHANGED nops
    /\ cl.pc = "run"
    /\ LET n == Len(cl.stack)
           top == cl.stack[n]
           made == deep_clone_node(nodes[top.src], top.newid, top.kids)
       IN /\ top.idx > Len(nodes[top.src].children)
          /\ nodes' = add_node(nodes, made)
          /\ IF n > 1
             THEN /\ cl' = [cl EXCEPT !.made = cl.made \cup {top.newid},
                                      !.stack =
                              [SubSeq(cl.stack, 1, n-1) EXCEPT
                                 ![n-1].kids = Append(cl.stack[n-1].kids, top.newid),
                                 ![n-1].idx = cl.stack[n-1].idx + 1]]
                  /\ op' = Call("clone_step", FALSE, 0)
                  /\ UNCHANGED <<arenaLock, mut>>
             ELSE /\ cl' = [cl EXCEPT !.pc = "idle", !.stack = <<>>,
                                      !.made = cl.made \cup {top.newid}]
                  /\ op' = Call("clone_deep", TRUE, top.newid)
                  /\ arenaLock' = "free"
                  /\ mut' = "idle"
    /\ UNCHANGED <<counter, assigned, poisoned, lay, boxes, lastAttach, replacedOut>>
    /\ UNCHANGED hostVars

\* ------------------------------------------------ dom_set_attribute
\* HashMap::insert on the node's attribute map.
attr_insert(m, k, v) == [n \in (DOMAIN m) \cup {k} |-> IF n = k THEN v ELSE m[n]]

SetAttribute(id, k, v) ==
    /\ ArenaFree
    /\ Mutating
    /\ IF Present(id)
       THEN /\ nodes' = SetField(nodes, id, "attributes", attr_insert(nodes[id].attributes, k, v))
            /\ op' = Call("set_attribute", TRUE, 0)
       ELSE /\ op' = Call("set_attribute", FALSE, 0)
            /\ UNCHANGED nodes
    /\ UNCHANGED <<counter, assigned, arenaLock, poisoned, mut, cl, lay, boxes,
                   lastAttach, replacedOut>>
    /\ UNCHANGED hostVars

\* ------------------------------------------------ dom_add_event_listener
\* event_listeners.entry(event_type).or_default().push(callback_id)
listener_push(m, e, cb) ==
    [k \in (DOMAIN m) \cup {e} |->
        IF k = e THEN Append(IF e \in DOMAIN m THEN m[e] ELSE <<>>, cb) ELSE m[k]]

AddEventListener(id, event_type, callback_id) ==
    /\ ArenaFree
    /\ Mutating
    /\ IF Present(id)
       THEN /\ nodes' = SetField(nodes, id, "event_listeners",
                                 listener_push(nodes[id].event_listeners, event_type, callback_id))
            /\ op' = Call("add_event_listener", TRUE, 0)
       ELSE /\ op' = Call("add_event_listener", FALSE, 0)
            /\ UNCHANGED nodes
    /\ UNCHANGED <<counter, assigned, arenaLock, poisoned, mut, cl, lay, boxes,
                   lastAttach, replacedOut>>
    /\ UNCHANGED hostVars

\* ------------------------------------------------ dom_get_attribute
\* ARENA.lock().unwrap() and node.lock().unwrap(): on a poisoned mutex lock()
\* is an Err and the unwrap panics in the calling thread, which holds no
\* guard yet.  Behind a thread that is blocked with the arena guard the call
\* waits and takes no step.
GetAttribute(id, name) ==
    /\ arenaLock \in {"free", "poisoned"}
    /\ op' = IF arenaLock = "poisoned" \/ (Present(id) /\ id \in poisoned)
             THEN Call("panic", FALSE, id)
             ELSE Call("get_attribute", Present(id) /\ name \in DOMAIN nodes[id].attributes, 0)
    /\ UNCHANGED arenaVars
    /\ UNCHANGED hostVars

\* ------------------------------------------------ dom_set_text_content
\* On a Text node the text is overwritten.  On any other node the child list
\* is cleared and one new Text node is added under it: DOMNode::new draws an
\* id that is thrown away, and a second fetch_add gives the id that is kept.
set_text_content(arena, id, v, newid) ==
    IF arena[id].node_type = "text"
    THEN SetField(arena, id, "text_content", v)
    ELSE add_node(SetField(arena, id, "children", <<newid>>),
                  [DOMNode_new(newid, "text") EXCEPT !.text_content = v, !.parent = id])

SetTextContent(id, v) ==
    /\ ArenaFree
    /\ Mutating
    /\ IF ~Present(id)
       THEN /\ op' = Call("set_text_content", FALSE, 0)
            /\ UNCHANGED <<nodes, counter, assigned>>
       ELSE IF nodes[id].node_type = "text"
       THEN /\ nodes' = set_text_content(nodes, id, v, 0)
            /\ op' = Call("set_text_content", TRUE, 0)
            /\ UNCHANGED <<counter, assigned>>
       ELSE /\ counter < MaxId
            /\ counter' = fetch_add(fetch_add(counter))
            /\ assigned' = assigned \o <<counter, fetch_add(counter)>>
            /\ nodes' = set_text_content(nodes, id, v, fetch_add(counter))
            /\ op' = Call("set_text_content", TRUE, fetch_add(counter))
    /\ UNCHANGED <<arenaLock, poisoned, mut, cl, lay, boxes, lastAttach, replacedOut>>
    /\ UNCHANGED hostVars

\* ------------------------------------------------ dom_set_inner_html
\* Whatever the node's type, the child list is cleared and one new Text node
\* that carries the value is added under it, as in the element branch of
\* dom_set_text_content.
set_inner_html(arena, id, v, newid) ==
    add_node(SetField(arena, id, "children", <<newid>>),
             [DOMNode_new(newid, "text") EXCEPT !.text_content = v, !.parent = id])

SetInnerHtml(id, v) ==
    /\ ArenaFree
    /\ Mutating
    /\ IF ~Present(id)
       THEN /\ op' = Call("set_inner_html", FALSE, 0)
            /\ UNCHANGED <<nodes, counter, assigned>>
       ELSE /\ fetch_add(counter) \in Ids
            /\ counter' = fetch_add(fetch_add(counter))
            /\ assigned' = assigned \o <<counter, fetch_add(counter)>>
            /\ nodes' = set_inner_html(nodes, id, v, fetch_add(counter))
            /\ op' = Call("set_inner_html", TRUE, fetch_add(counter))
    /\ UNCHANGED <<arenaLock, poisoned, mut, cl, lay, boxes, lastAttach, replacedOut>>
    /\ UNCHANGED hostVars

\* ------------------------------------------------ dom_get_next_sibling
\* The node's guard stays held (a temporary of the if-let) while the parent
\* is locked; the call returns the id after the node's in the parent's child
\* list, 0 when there is none.
next_sibling(arena, id) ==
    LET par == arena[id].parent
    IN  IF par = None \/ par \notin DOMAIN arena THEN 0
        ELSE LET sib == arena[par].children
                 pos == IndexOf(sib, id)
             IN  IF pos # 0 /\ pos + 1 <= Len(sib) THEN sib[pos + 1] ELSE 0

GetNextSibling(id) ==
    /\ ArenaFree
    /\ UNCHANGED nops
    /\ IF Present(id) /\ nodes[id].parent = id
       THEN /\ \E o \in RelockOutcomes : SelfRelock(o, {id})
            /\ op' = Call("next_sibling", FALSE, 0)
       ELSE /\ op' = Call("next_sibling", Present(id),
                          IF Present(id) THEN next_sibling(nodes, id) ELSE 0)
            /\ UNCHANGED <<arenaLock, poisoned, mut>>
    /\ UNCHANGED <<nodes, counter, assigned, cl, lay, boxes, lastAttach, replacedOut>>
    /\ UNCHANGED hostVars

\* ------------------------------------------------ dom_contains_node
\* The inner fn contains: a depth-first walk that stops at the first true.
\* The guard of a node is a temporary of the for loop, so it stays held while
\* the walk is below that node; held is the set of guards of the path. The
\* result is "true", "false", or "relock" when the walk comes to a node whose
\* guard the path already holds.
RECURSIVE contains(_, _, _, _)
RECURSIVE contains_children(_, _, _, _)
contains(arena, held, p, c) ==
    IF p = c THEN [res |-> "true", held |-> held]
    ELSE IF p \notin DOMAIN arena THEN [res |-> "false", held |-> held]
    ELSE IF p \in held THEN [res |-> "relock", held |-> held]
    ELSE contains_children(arena, held \cup {p}, arena[p].children, c)

contains_children(arena, held, kids, c) ==
    IF kids = <<>> THEN [res |-> "false", held |-> held]
    ELSE LET r == contains(arena, held, Head(kids), c)
         IN  IF r.res = "false" THEN contains_children(arena, held, Tail(kids), c)
             ELSE r

\* op.res is 1 for true and 0 for false.
ContainsNode(a, d) ==
    /\ ArenaFree
    /\ UNCHANGED nops
    /\ IF ~Present(a) \/ ~Present(d)
       THEN /\ op' = Call("contains", TRUE, 0)
            /\ UNCHANGED <<arenaLock, poisoned, mut>>
       ELSE LET r == contains(nodes, {}, a, d)
            IN  IF r.res = "relock"
                THEN /\ \E o \in RelockOutcomes : SelfRelock(o, r.held)
                     /\ op' = Call("contains", FALSE, 0)
                ELSE /\ op' = Call("contains", TRUE, IF r.res = "true" THEN 1 ELSE 0)
                     /\ UNCHANGED <<arenaLock, poisoned, mut>>
    /\ UNCHANGED <<nodes, counter, assigned, cl, lay, boxes, lastAttach, replacedOut>>
    /\ UNCHANGED hostVars

\* ------------------------------------------------ JavaScriptRuntime (javascript.rs)
\* format!("element_{}", n): a string that no id_to_string of a u32 equals.
\* The model writes it as the negative number -n, which no arena id equals.
ElementId(n) == 0 - n

ElementTags == {"div", "span"}

\* JavaScriptRuntime::new on the arena, with the id it is to treat as root.
\* A run replaces the runtime only before its first create_element, which
\* keeps the number of create_element calls of a run within MaxElements.
NewRuntime(r) ==
    /\ element_counter = 0
    /\ root_id' = r
    /\ element_counter' = 0
    /\ event_queue' = <<>>
    /\ op' = Call("new_runtime", TRUE, r)
    /\ UNCHANGED <<arenaVars, parseVars, flowVars, styleVars, cascadeVars>>

\* JavaScriptRuntime::create_element: the DOMNode value is built and dropped
\* at the end of the call without an add_node; only its id is pushed onto
\* the root's child list, and the ElementCreated event is queued.
create_element(arena, root, eid) ==
    IF root \in DOMAIN arena
    THEN SetField(arena, root, "children", Append(arena[root].children, eid))
    ELSE arena

CreateElement(tag) ==
    /\ ArenaFree
    /\ element_counter < MaxElements
    /\ element_counter' = element_counter + 1
    /\ IF Present(root_id) /\ root_id \in poisoned
       THEN /\ mut' = "panicked"
            /\ arenaLock' = "poisoned"
            /\ op' = Call("create_element", FALSE, 0)
            /\ UNCHANGED <<nodes, event_queue>>
       ELSE /\ nodes' = create_element(nodes, root_id, ElementId(element_counter + 1))
            /\ event_queue' = Append(event_queue,
                                     [event |-> "ElementCreated",
                                      id |-> ElementId(element_counter + 1),
                                      tag_name |-> tag])
            /\ op' = Call("create_element", TRUE, ElementId(element_counter + 1))
            /\ UNCHANGED <<arenaLock, mut>>
    /\ UNCHANGED <<counter, assigned, poisoned, cl, lay, boxes, nops, lastAttach,
                   replacedOut, root_id, styleVars, cascadeVars, parseVars, flowVars>>

\* ------------------------------------------------ layout (layout/layout.rs)
IsWhitespace(ch) == ch \in {" ", "\t", "\n"}

\* str::trim
RECURSIVE trim_start(_)
trim_start(t) == IF t # <<>> /\ IsWhitespace(Head(t)) THEN trim_start(Tail(t)) ELSE t
RECURSIVE trim_end(_)
trim_end(t) ==
    IF t # <<>> /\ IsWhitespace(t[Len(t)]) THEN trim_end(SubSeq(t, 1, Len(t) - 1)) ELSE t
trim(t) == trim_end(trim_start(t))

\* str::to_lowercase / eq_ignore_ascii_case on the tags of the model.
to_lowercase(tag) == IF tag = "BODY" THEN "body" ELSE tag

IsElement(node) == node.node_type \notin {"document", "text"}

\* parse_inline_styles on the style attributes of the model, then
\* StyleMap::merge over StyleMap::default(), whose display is "block".  The
\* stylesheet the callers pass (HTMLParser::get_stylesheet) has no rules.
StyleAttrs == {"display: inline", "display: none"}
MarginAttrs == {"margin: 5", "margin: -5"}
get_node_styles(node) ==
    LET attr == IF "style" \in DOMAIN node.attributes THEN node.attributes["style"] ELSE ""
    IN  [display |-> IF attr = "display: inline" THEN "inline"
                     ELSE IF attr = "display: none" THEN "none"
                     ELSE "block",
         margin |-> IF attr = "margin: 5" THEN <<"5">>
                    ELSE IF attr = "margin: -5" THEN <<"-", "5">>
                    ELSE <<"0">>,
         padding |-> <<"0">>,
         width |-> <<"a", "u", "t", "o">>,
         height |-> <<"a", "u", "t", "o">>,
         font_size |-> <<"1", "6">>]

BlockTags == {"div", "p", "h1", "h2", "h3", "h4", "h5", "h6", "section", "article",
              "header", "footer", "nav", "main", "aside"}
InlineTags == {"span", "a", "strong", "em", "b", "i", "u", "code", "small"}

is_block(node) ==
    to_lowercase(get_node_styles(node).display) = "block" \/ node.node_type \in BlockTags
is_inline(node) ==
    to_lowercase(get_node_styles(node).display) = "inline" \/ node.node_type \in InlineTags

\* The loop of extract_text_content over an element's children: the text of
\* every Text child that resolves, each followed by one space.
RECURSIVE child_text(_, _)
child_text(kids, arena) ==
    IF kids = <<>> THEN <<>>
    ELSE LET c == Head(kids)
         IN  (IF c \in DOMAIN arena /\ arena[c].node_type = "text"
              THEN arena[c].text_content \o <<" ">> ELSE <<>>)
             \o child_text(Tail(kids), arena)

extract_text_content(node, arena) ==
    IF node.node_type = "text" THEN trim(node.text_content)
    ELSE IF IsElement(node) THEN trim(child_text(node.children, arena))
    ELSE <<>>

\* The boxes layout_node pushes, by what identifies them: the tag (or
\* "text") and the text they carry.
element_box(node, arena) ==
    [node_type |-> node.node_type, text_content |-> extract_text_content(node, arena)]
\* The text goes into the box with its blanks.
text_box_untrimmed(node) == [node_type |-> "text", text_content |-> node.text_content]

text_box(node) == [node_type |-> "text", text_content |-> trim(node.text_content)]

LayFrame(id, idx) == [id |-> id, idx |-> idx]
LayHeld == Range(lay.held)

\* The layout thread, holding the guards in held, locks one of them again.
LayoutRelock(outcome, held) ==
    /\ lay' = [lay EXCEPT !.pc = outcome, !.held = held]
    /\ arenaLock' = IF outcome = "blocked" THEN "L" ELSE "poisoned"
    /\ poisoned' = IF outcome = "blocked" THEN poisoned ELSE poisoned \cup Range(held)
    /\ op' = Call("layout", FALSE, 0)
    /\ UNCHANGED boxes

\* A caller takes the arena guard and calls layout(dom, arena) with dom an
\* unguarded copy of the node it regards as the document.
LayoutStart(r) ==
    /\ ArenaFree
    /\ lay.pc \in {"idle", "done"}
    /\ arenaLock' = "L"
    /\ lay' = [pc |-> "find", stack |-> <<LayFrame(r, 1)>>, held |-> <<>>,
               dom |-> IF Present(r) THEN nodes[r] ELSE DOMNode_new(r, "document"),
               root |-> 0]
    /\ boxes' = <<>>
    /\ op' = Call("layout_begin", FALSE, 0)
    /\ UNCHANGED <<nodes, counter, assigned, poisoned, mut, cl, nops, lastAttach, replacedOut>>
    /\ UNCHANGED hostVars

\* One step of find_body_node_id.  The frame at the bottom reads dom, the
\* others the node whose guard the frame took.  A <body> ends the search and
\* the recursion unwinds, dropping every guard; a child is locked while the
\* guards of the frames above it are still held.
FindNode(n) == IF n = 1 THEN lay.dom ELSE nodes[lay.stack[n].id]

FindStep ==
    /\ lay.pc = "find"
    /\ LET n    == Len(lay.stack)
           top  == lay.stack[n]
           node == FindNode(n)
           kids == node.children
       IN IF IsElement(node) /\ to_lowercase(node.node_type) = "body"
          THEN /\ lay' = [lay EXCEPT !.pc = "root", !.root = top.id,
                                     !.stack = <<>>, !.held = <<>>]
               /\ op' = Call("layout_step", FALSE, 0)
               /\ UNCHANGED <<arenaLock, poisoned, boxes>>
          ELSE IF top.idx > Len(kids)
          THEN /\ lay' = IF n = 1
                         THEN [lay EXCEPT !.pc = "root", !.root = lay.dom.id,
                                          !.stack = <<>>, !.held = <<>>]
                         ELSE [lay EXCEPT !.stack = [SubSeq(lay.stack, 1, n-1) EXCEPT
                                                       ![n-1].idx = lay.stack[n-1].idx + 1],
                                          !.held = SubSeq(lay.held, 1, Len(lay.held) - 1)]
               /\ op' = Call("layout_step", FALSE, 0)
               /\ UNCHANGED <<arenaLock, poisoned, boxes>>
          ELSE LET c == kids[top.idx]
               IN IF ~Present(c)
                  THEN /\ lay' = [lay EXCEPT !.stack[n].idx = top.idx + 1]
                       /\ op' = Call("layout_step", FALSE, 0)
                       /\ UNCHANGED <<arenaLock, poisoned, boxes>>
                  ELSE IF c \in LayHeld
                  THEN \E o \in RelockOutcomes : LayoutRelock(o, lay.held)
                  ELSE /\ lay' = [lay EXCEPT !.stack = Append(lay.stack, LayFrame(c, 1)),
                                             !.held = Append(lay.held, c)]
                       /\ op' = Call("layout_step", FALSE, 0)
                       /\ UNCHANGED <<arenaLock, poisoned, boxes>>
    /\ UNCHANGED <<nodes, counter, assigned, mut, cl, nops, lastAttach, replacedOut>>
    /\ UNCHANGED hostVars

\* layout_node up to its loop over the children, on node c whose guard the
\* thread has just taken on top of the guards in held.  A block or inline
\* element pushes its box, whose text extract_text_content collects by
\* locking every child; a Text node pushes a box when its trimmed text is
\* not empty and has no loop; every other node goes straight to the loop.
LayoutEnter(c, stack, held) ==
    LET node == nodes[c]
        boxed == IsElement(node) /\ (is_block(node) \/ is_inline(node))
    IN  IF boxed /\ \E k \in Range(node.children) : Present(k) /\ k \in Range(held) \cup {c}
        THEN \E o \in RelockOutcomes : LayoutRelock(o, Append(held, c))
        ELSE /\ lay' = [lay EXCEPT !.pc = "layout", !.held = Append(held, c),
                          !.stack = Append(stack,
                             LayFrame(c, IF node.node_type = "text"
                                         THEN Len(node.children) + 1 ELSE 1))]
             /\ boxes' = IF boxed THEN Append(boxes, element_box(node, nodes))
                         ELSE IF node.node_type = "text" /\ trim(node.text_content) # <<>>
                         THEN Append(boxes, text_box(node))
                         ELSE boxes
             /\ op' = Call("layout_step", FALSE, 0)
             /\ UNCHANGED <<arenaLock, poisoned>>

\* layout() unwraps the lookup of the layout root and panics on None.
LayoutRootUnwrap ==
    /\ lay.pc = "root"
    /\ IF Present(lay.root)
       THEN LayoutEnter(lay.root, <<>>, <<>>)
       ELSE /\ lay' = [lay EXCEPT !.pc = "panicked"]
            /\ arenaLock' = "poisoned"
            /\ op' = Call("layout", FALSE, 0)
            /\ UNCHANGED <<poisoned, boxes>>
    /\ UNCHANGED <<nodes, counter, assigned, mut, cl, nops, lastAttach, replacedOut>>
    /\ UNCHANGED hostVars

\* layout() after the body search: resolve the layout root, lock it and
\* enter layout_node on it; an id that does not resolve ends the pass with
\* an empty list.
LayoutRoot ==
    /\ lay.pc = "root"
    /\ IF Present(lay.root)
       THEN LayoutEnter(lay.root, <<>>, <<>>)
       ELSE /\ lay' = [lay EXCEPT !.pc = "done"]
            /\ arenaLock' = "free"
            /\ op' = Call("layout", TRUE, 0)
            /\ UNCHANGED <<poisoned, boxes>>
    /\ UNCHANGED <<nodes, counter, assigned, mut, cl, nops, lastAttach, replacedOut>>
    /\ UNCHANGED hostVars

\* One turn of a children loop of layout_node.
LayoutDescend ==
    /\ lay.pc = "layout"
    /\ LET n   == Len(lay.stack)
           top == lay.stack[n]
           kids == nodes[top.id].children
       IN /\ top.idx <= Len(kids)
          /\ LET c == kids[top.idx]
             IN IF ~Present(c)
                THEN /\ lay' = [lay EXCEPT !.stack[n].idx = top.idx + 1]
                     /\ op' = Call("layout_step", FALSE, 0)
                     /\ UNCHANGED <<arenaLock, poisoned, boxes>>
                ELSE IF c \in LayHeld
                THEN \E o \in RelockOutcomes : LayoutRelock(o, lay.held)
                ELSE LayoutEnter(c, lay.stack, lay.held)
    /\ UNCHANGED <<nodes, counter, assigned, mut, cl, nops, lastAttach, replacedOut>>
    /\ UNCHANGED hostVars

\* layout_node returns: the node's guard is dropped and the parent's loop
\* moves on; the return of the root's call ends layout(), which hands the
\* boxes back, and the caller drops the arena guard.
LayoutReturn ==
    /\ lay.pc = "layout"
    /\ LET n   == Len(lay.stack)
           top == lay.stack[n]
       IN /\ top.idx > Len(nodes[top.id].children)
          /\ IF n > 1
             THEN /\ lay' = [lay EXCEPT !.stack = [SubSeq(lay.stack, 1, n-1) EXCEPT
                                                     ![n-1].idx = lay.stack[n-1].idx + 1],
                                        !.held = SubSeq(lay.held, 1, Len(lay.held) - 1)]
                  /\ op' = Call("layout_step", FALSE, 0)
                  /\ UNCHANGED arenaLock
             ELSE /\ lay' = [lay EXCEPT !.pc = "done", !.stack = <<>>, !.held = <<>>]
                  /\ op' = Call("layout", TRUE, Len(boxes))
                  /\ arenaLock' = "free"
    /\ UNCHANGED <<nodes, counter, assigned, poisoned, mut, cl, boxes, nops,
                   lastAttach, replacedOut>>
    /\ UNCHANGED hostVars

\* ------------------------------------------------ specifications
\* Ids a caller passes: those of the nodes present, and one id that resolves
\* to no node (until a deep clone draws it).
ArgIds == ((DOMAIN nodes) \cap Ids) \cup {MaxId + 1}

\* The structural mutation API on one arena.
StructNext ==
    \/ NewNode
    \/ \E k \in {"div"} : Create(k)
    \/ \E p \in ArgIds, c \in ArgIds : AppendChild(p, c)
    \/ \E p \in ArgIds, n \in ArgIds, r \in ArgIds : InsertBefore(p, n, r)
    \/ \E p \in ArgIds, n \in ArgIds, o \in ArgIds : ReplaceChild(p, n, o)
    \/ \E id \in ArgIds : RemoveNode(id)
    \/ \E id \in ArgIds : CloneShallow(id)
    \/ \E id \in ArgIds : CloneStart(id)
    \/ CloneDescend
    \/ CloneReturn

SpecStruct == Init /\ [][StructNext]_vars

\* A layout thread and a mutator thread on one arena.
LayoutNext ==
    \/ \E k \in Kinds \ {"div"} : Create(k)
    \/ \E p \in ArgIds, c \in ArgIds : AppendChild(p, c)
    \/ \E p \in ArgIds, n \in ArgIds, r \in ArgIds : InsertBefore(p, n, r)
    \/ \E p \in ArgIds, n \in ArgIds, o \in ArgIds : ReplaceChild(p, n, o)
    \/ \E id \in ArgIds : RemoveNode(id)
    \/ \E id \in ArgIds : GetNextSibling(id)
    \/ \E id \in ArgIds, v \in {t \in Texts : trim(t) # <<>>} : SetTextContent(id, v)
    \/ \E r \in ArgIds : LayoutStart(r)
    \/ FindStep
    \/ LayoutRoot
    \/ LayoutDescend
    \/ LayoutReturn

SpecLayout == Init /\ [][LayoutNext]_vars

\* ------------------------------------------------ queries (dom/node.rs)
\* Strings the queries take apart are sequences of characters.  The tags of
\* the query runs are one letter long ("p", "a"), so a tag is the sequence
\* of its one character; an arena id below ten is its one decimal digit.
TagChars(tag) == <<tag>>
id_to_string(n) == <<<<"0", "1", "2", "3", "4", "5", "6", "7", "8", "9">>[n + 1]>>

\* str::split_whitespace: the maximal runs of non-blank characters, in order.
RECURSIVE split_ws(_, _, _)
split_ws(t, cur, acc) ==
    LET done == IF cur = <<>> THEN acc ELSE Append(acc, cur)
    IN  IF t = <<>> THEN done
        ELSE IF IsWhitespace(Head(t)) THEN split_ws(Tail(t), <<>>, done)
        ELSE split_ws(Tail(t), Append(cur, Head(t)), acc)
split_whitespace(t) == split_ws(t, <<>>, <<>>)

\* The test each find_element_by_* makes on self before it goes to the
\* children: by "id" the node's arena id (self.id) against the text, by
\* "class" the tokens of the class attribute, by "tag" the element's tag.
SelfHit(by, node, arg) ==
    CASE by = "id" -> id_to_string(node.id) = arg
      [] by = "class" -> /\ "class" \in DOMAIN node.attributes
                         /\ arg \in Range(split_whitespace(node.attributes["class"]))
      [] by = "tag" -> IsElement(node) /\ TagChars(node.node_type) = arg

\* The shared shape of find_element_by_id, find_element_by_class_ref_arena
\* and find_element_by_tag_ref_arena: self first, then each child that
\* resolves, in list order, under the child's guard; the first Some ends the
\* walk.  held is the set of guards of the path, the caller's guard on self
\* included; st is "relock" when the walk locks one of them again.
RECURSIVE find_element(_, _, _, _, _)
RECURSIVE find_in_children(_, _, _, _, _)
find_element(by, arena, held, self, arg) ==
    IF SelfHit(by, arena[self], arg) THEN [st |-> "found", id |-> self, held |-> held]
    ELSE find_in_children(by, arena, held, arena[self].children, arg)

find_in_children(by, arena, held, kids, arg) ==
    IF kids = <<>> THEN [st |-> "none", id |-> 0, held |-> held]
    ELSE IF Head(kids) \notin DOMAIN arena
    THEN find_in_children(by, arena, held, Tail(kids), arg)
    ELSE IF Head(kids) \in held THEN [st |-> "relock", id |-> 0, held |-> held]
    ELSE LET r == find_element(by, arena, held \cup {Head(kids)}, Head(kids), arg)
         IN  IF r.st = "none" THEN find_in_children(by, arena, held, Tail(kids), arg)
             ELSE r

find_element_by_id(arena, held, self, id) == find_element("id", arena, held, self, id)
find_element_by_class_ref_arena(arena, held, self, class) ==
    find_element("class", arena, held, self, class)
find_element_by_tag_ref_arena(arena, held, self, tag) ==
    find_element("tag", arena, held, self, tag)

\* DOMNode::query_selector: the first character picks the search.
query_selector(arena, held, self, selector) ==
    IF Head(selector) = "#" THEN find_element_by_id(arena, held, self, Tail(selector))
    ELSE IF Head(selector) = "." THEN find_element_by_class_ref_arena(arena, held, self, Tail(selector))
    ELSE find_element_by_tag_ref_arena(arena, held, self, selector)

\* find_elements_by_selector_arena: self is pushed when it is an element
\* whose tag equals the whole selector text, then every child that resolves
\* is walked under its guard.
RECURSIVE find_elements_by_selector_arena(_, _, _, _, _)
RECURSIVE find_elements_in_children(_, _, _, _, _)
find_elements_by_selector_arena(arena, held, self, selector, results) ==
    find_elements_in_children(arena, held, arena[self].children, selector,
        IF IsElement(arena[self]) /\ TagChars(arena[self].node_type) = selector
        THEN Append(results, self) ELSE results)

find_elements_in_children(arena, held, kids, selector, results) ==
    IF kids = <<>> THEN [st |-> "done", results |-> results, held |-> held]
    ELSE IF Head(kids) \notin DOMAIN arena
    THEN find_elements_in_children(arena, held, Tail(kids), selector, results)
    ELSE IF Head(kids) \in held THEN [st |-> "relock", results |-> results, held |-> held]
    ELSE LET r == find_elements_by_selector_arena(arena, held \cup {Head(kids)},
                                                  Head(kids), selector, results)
         IN  IF r.st = "relock" THEN r
             ELSE find_elements_in_children(arena, held, Tail(kids), selector, r.results)

query_selector_all(arena, held, self, selector) ==
    find_elements_by_selector_arena(arena, held, self, selector, <<>>)

\* A caller that holds the arena guard and the guard of the node r calls
\* r.query_selector(selector, arena); op.res is the id found, None for None.
QuerySelector(r, selector) ==
    /\ ArenaFree
    /\ Present(r)
    /\ LET q == query_selector(nodes, {r}, r, selector)
       IN  IF q.st = "relock"
           THEN /\ \E o \in RelockOutcomes : SelfRelock(o, q.held)
                /\ op' = Call("query_selector", FALSE, None)
           ELSE /\ op' = Call("query_selector", TRUE, q.id)
                /\ UNCHANGED <<arenaLock, poisoned, mut>>
    /\ UNCHANGED <<nodes, counter, assigned, cl, lay, boxes, nops, lastAttach, replacedOut>>
    /\ UNCHANGED hostVars

\* The same caller calls r.query_selector_all(selector, arena); op.res is the
\* sequence of the ids of the result.
QuerySelectorAll(r, selector) ==
    /\ ArenaFree
    /\ Present(r)
    /\ LET q == query_selector_all(nodes, {r}, r, selector)
       IN  IF q.st = "relock"
           THEN /\ \E o \in RelockOutcomes : SelfRelock(o, q.held)
                /\ op' = Call("query_selector_all", FALSE, <<>>)
           ELSE /\ op' = Call("query_selector_all", TRUE, q.results)
                /\ UNCHANGED <<arenaLock, poisoned, mut>>
    /\ UNCHANGED <<nodes, counter, assigned, cl, lay, boxes, nops, lastAttach, replacedOut>>
    /\ UNCHANGED hostVars

\* ------------------------------------------------ StyleMap (dom/node.rs)
\* Property names and values the style runs use; "bogus" is no property.
StyleProps == {"display", "color", "bogus"}
StyleValues == {"", "red", "inline"}

\* StyleMap::set_property: the field the name stands for takes the value,
\* whatever it is; an unknown name is reported and ignored.
set_property(m, property, value) ==
    CASE property = "display" -> [m EXCEPT !.display = value]
      [] property = "color" -> [m EXCEPT !.color = value]
      [] OTHER -> m

\* A variant of merge that copies color even when other's is empty.
merge_copy_empty(self, o) ==
    [display |-> IF o.display # "" THEN o.display ELSE self.display,
     color |-> o.color]

\* StyleMap::merge: field by field, other's value when it is not empty.
merge(self, o) ==
    [display |-> IF o.display # "" THEN o.display ELSE self.display,
     color |-> IF o.color # "" THEN o.color ELSE self.color]

\* LayoutEngine::apply_css_property: one declaration of a matching rule.
apply_css_property(m, property, value) ==
    CASE to_lowercase(property) = "display" -> [m EXCEPT !.display = value]
      [] to_lowercase(property) = "color" -> [m EXCEPT !.color = value]
      [] OTHER -> m

NewStyleMaps ==
    /\ styles' = StyleMap_default
    /\ other' = StyleMap_default
    /\ op' = Call("style_default", TRUE, 0)
    /\ UNCHANGED <<arenaVars, parseVars, flowVars, scriptVars, cascadeVars>>

SetProperty(property, value) ==
    /\ styles' = set_property(styles, property, value)
    /\ op' = Call("set_property", property # "bogus", 0)
    /\ UNCHANGED <<arenaVars, parseVars, flowVars, scriptVars, cascadeVars, other>>

SetOtherProperty(property, value) ==
    /\ other' = set_property(other, property, value)
    /\ op' = Call("set_property_other", property # "bogus", 0)
    /\ UNCHANGED <<arenaVars, parseVars, flowVars, scriptVars, cascadeVars, styles>>

MergeStyles ==
    /\ styles' = merge(styles, other)
    /\ op' = Call("merge", TRUE, 0)
    /\ UNCHANGED <<arenaVars, parseVars, flowVars, scriptVars, cascadeVars, other>>

\* The parser keeps no declaration whose value is empty.
ApplyCssProperty(property, value) ==
    /\ value # ""
    /\ styles' = apply_css_property(styles, property, value)
    /\ op' = Call("apply_css_property", property # "bogus", 0)
    /\ UNCHANGED <<arenaVars, parseVars, flowVars, scriptVars, cascadeVars, other>>

\* ------------------------------------------------ the cascade (css.rs, ffi/mod.rs, layout.rs)
\* str::matches(ch).count() on a sequence of characters.
CountChar(t, ch) == Cardinality({i \in DOMAIN t : t[i] = ch})

\* Stylesheet::calculate_specificity: over the blank-separated parts, 100 for
\* each '#', 10 for each '.', '[' and ':', and 1 for a part that starts with
\* none of them.
RECURSIVE SumParts(_)
SumParts(parts) ==
    IF parts = <<>> THEN 0
    ELSE LET part == Head(parts)
         IN  CountChar(part, "#") * 100 + CountChar(part, ".") * 10
             + CountChar(part, "[") * 10
             + (IF Head(part) \notin {"#", ".", "[", ":"} THEN 1 ELSE 0)
             + CountChar(part, ":") * 10
             + SumParts(Tail(parts))
calculate_specificity(selector) == SumParts(split_whitespace(selector))

\* ffi::matches_selector: an element matches the selector that is its tag,
\* .c with c a token of its class attribute, or #v with v its id attribute.
matches_selector(node, selector) ==
    /\ IsElement(node)
    /\ \/ selector = TagChars(node.node_type)
       \/ /\ Head(selector) = "."
          /\ "class" \in DOMAIN node.attributes
          /\ Tail(selector) \in Range(split_whitespace(node.attributes["class"]))
       \/ /\ Head(selector) = "#"
          /\ "id" \in DOMAIN node.attributes
          /\ node.attributes["id"] = Tail(selector)

\* The declarations of one rule, each through apply_css_property.  The keys
\* of the map are distinct and lower case, so the order in which the HashMap
\* yields them does not show.
RECURSIVE apply_declarations(_, _, _)
apply_declarations(m, decl, keys) ==
    IF keys = {} THEN m
    ELSE LET k == CHOOSE x \in keys : TRUE
         IN  apply_declarations(apply_css_property(m, k, decl[k]), decl, keys \ {k})

\* A variant of apply_stylesheet_to_node that walks the rules last to first.
RECURSIVE apply_stylesheet_reversed(_, _, _)
apply_stylesheet_reversed(node, rules, m) ==
    IF rules = <<>> \/ ~IsElement(node) THEN m
    ELSE LET rule == rules[Len(rules)]
             rest == SubSeq(rules, 1, Len(rules) - 1)
         IN  apply_stylesheet_reversed(node, rest,
                 IF matches_selector(node, rule.selector)
                 THEN apply_declarations(m, rule.declarations, DOMAIN rule.declarations)
                 ELSE m)

\* LayoutEngine::apply_stylesheet_to_node: for an element, the rules in the
\* order of the stylesheet, each matching rule's declarations written over
\* what is there.
RECURSIVE apply_stylesheet_to_node(_, _, _)
apply_stylesheet_to_node(node, rules, m) ==
    IF rules = <<>> \/ ~IsElement(node) THEN m
    ELSE apply_stylesheet_to_node(node, Tail(rules),
             IF matches_selector(node, Head(rules).selector)
             THEN apply_declarations(m, Head(rules).declarations,
                                     DOMAIN Head(rules).declarations)
             ELSE m)

\* LayoutEngine::get_node_styles of an engine built with_stylesheet: the
\* default map, the inline style merged into it, then the stylesheet.
get_node_styles_with(node, rules) ==
    apply_stylesheet_to_node(node, rules,
        [StyleMap_default EXCEPT !.display = get_node_styles(node).display])

\* Selectors and declaration maps of the cascade runs.
RuleSelectors == {<<"#", "m">>, <<"p">>}
RuleDeclarations == {[color |-> "red"], [color |-> "blue"], [display |-> "inline"]}

\* Stylesheet::add_rule
AddRule(selector, declarations) ==
    /\ Len(stylesheet) < MaxRules
    /\ stylesheet' = Append(stylesheet, [selector |-> selector,
                                         declarations |-> declarations,
                                         specificity |-> calculate_specificity(selector)])
    /\ op' = Call("add_rule", TRUE, 0)
    /\ UNCHANGED <<arenaVars, parseVars, flowVars, scriptVars, styleVars>>

\* get_node_styles on the node id of the arena; styles is the map it returns
\* and op.res the id.
ResolveStyles(id) ==
    /\ ArenaFree
    /\ Present(id)
    /\ styles' = get_node_styles_with(nodes[id], stylesheet)
    /\ op' = Call("get_node_styles", TRUE, id)
    /\ UNCHANGED <<arenaVars, parseVars, flowVars, scriptVars, cascadeVars, other>>

\* ------------------------------------------------ parse_box_value (layout.rs)
\* str::parse::<f32> on a token: Ok of the number a run of decimal digits
\* writes, with its sign when a '-' leads; any other token of the model's
\* alphabets is an Err, which the callers replace through unwrap_or.
Err == <<FALSE, 0>>
Ok(n) == <<TRUE, n>>
DigitValue(ch) == CASE ch = "0" -> 0 [] ch = "1" -> 1 [] ch = "2" -> 2 [] ch = "3" -> 3
                    [] ch = "4" -> 4 [] ch = "5" -> 5 [] ch = "6" -> 6 [] ch = "7" -> 7
                    [] ch = "8" -> 8 [] ch = "9" -> 9 [] OTHER -> -1
IsDigits(tok) == tok # <<>> /\ \A i \in DOMAIN tok : DigitValue(tok[i]) >= 0
RECURSIVE parse_digits(_, _)
parse_digits(tok, acc) ==
    IF tok = <<>> THEN acc
    ELSE parse_digits(Tail(tok), acc * 10 + DigitValue(Head(tok)))
parse_f32(tok) ==
    IF IsDigits(tok) THEN Ok(parse_digits(tok, 0))
    ELSE IF tok # <<>> /\ Head(tok) = "-" /\ IsDigits(Tail(tok))
    THEN Ok(0 - parse_digits(Tail(tok), 0))
    ELSE Err
unwrap_or(r, default) == IF r[1] THEN r[2] ELSE default

BoxValues(t, r, b, l) == [top |-> t, right |-> r, bottom |-> b, left |-> l]
BoxValues_default == BoxValues(0, 0, 0, 0)

\* A variant of parse_box_value that also expands three values, as CSS does.
parse_box_three(value) ==
    LET parts == split_whitespace(value)
        num(i) == unwrap_or(parse_f32(parts[i]), 0)
    IN  CASE Len(parts) = 1 -> BoxValues(num(1), num(1), num(1), num(1))
          [] Len(parts) = 2 -> BoxValues(num(1), num(2), num(1), num(2))
          [] Len(parts) = 3 -> BoxValues(num(1), num(2), num(3), num(2))
          [] Len(parts) = 4 -> BoxValues(num(1), num(2), num(3), num(4))
          [] OTHER -> BoxValues_default

parse_box_value(value) ==
    LET parts == split_whitespace(value)
        num(i) == unwrap_or(parse_f32(parts[i]), 0)
    IN  CASE Len(parts) = 1 -> BoxValues(num(1), num(1), num(1), num(1))
          [] Len(parts) = 2 -> BoxValues(num(1), num(2), num(1), num(2))
          [] Len(parts) = 4 -> BoxValues(num(1), num(2), num(3), num(4))
          [] OTHER -> BoxValues_default

\* The caller's text grows by one character; what was parsed from the
\* shorter text is dropped.
BoxChars == {"1", "2", " "}
RECURSIVE TrailingDigits(_)
TrailingDigits(t) ==
    IF t = <<>> \/ IsWhitespace(t[Len(t)]) THEN 0
    ELSE 1 + TrailingDigits(SubSeq(t, 1, Len(t) - 1))
PushChar(ch) ==
    /\ Len(text) < MaxLen
    /\ ~IsWhitespace(ch) => TrailingDigits(text) < MaxDigits
    /\ text' = Append(text, ch)
    /\ parsed' = <<>>
    /\ op' = Call("push_char", TRUE, 0)
    /\ UNCHANGED <<arenaVars, flowVars, scriptVars, styleVars, cascadeVars, parser>>

ParseBox ==
    /\ parsed' = parse_box_value(text)
    /\ op' = Call("parse_box_value", TRUE, 0)
    /\ UNCHANGED <<arenaVars, flowVars, scriptVars, styleVars, cascadeVars, text, parser>>

\* ------------------------------------------------ inline styles (css.rs)
\* CSSParser works on its input by position, the number of characters it
\* has consumed; the character at the position is input[position + 1].
MaxStyleLen == 4
Letters == {"a", "b", "c", "d", "e", "f", "g", "h", "i", "j", "k", "l", "m", "n", "o",
            "p", "q", "r", "s", "t", "u", "v", "w", "x", "y", "z"}
Digits == {"0", "1", "2", "3", "4", "5", "6", "7", "8", "9"}
is_alphanumeric(ch) == ch \in Letters \cup Digits

\* CSSParser::consume_whitespace: the position behind the whitespace at pos
RECURSIVE consume_whitespace(_, _)
consume_whitespace(input, pos) ==
    IF pos < Len(input) /\ IsWhitespace(input[pos + 1])
    THEN consume_whitespace(input, pos + 1) ELSE pos

\* CSSParser::parse_property_name: <<the name read at pos, the position
\* behind it>>; the name is empty when no name character is at pos
RECURSIVE parse_property_name(_, _, _)
parse_property_name(input, pos, property) ==
    IF pos < Len(input) /\ (is_alphanumeric(input[pos + 1]) \/ input[pos + 1] \in {"-", "_"})
    THEN parse_property_name(input, pos + 1, Append(property, input[pos + 1]))
    ELSE <<property, pos>>

\* The loop of CSSParser::parse_property_value
RECURSIVE scan_value(_, _, _, _, _, _)
scan_value(input, pos, in_quotes, quote_char, paren_depth, value) ==
    IF pos >= Len(input) THEN <<value, pos>>
    ELSE LET current_char == input[pos + 1]
             on(depth) == scan_value(input, pos + 1, in_quotes, quote_char, depth,
                                     Append(value, current_char))
         IN  IF in_quotes
             THEN IF current_char = quote_char THEN <<value, pos + 1>> ELSE on(paren_depth)
             ELSE CASE current_char = "(" -> on(paren_depth + 1)
                    [] current_char = ")" ->
                         IF paren_depth > 0 THEN on(paren_depth - 1) ELSE <<value, pos>>
                    [] current_char \in {";", "}"} /\ paren_depth = 0 -> <<value, pos>>
                    [] OTHER -> on(paren_depth)

\* CSSParser::parse_property_value: <<the trimmed value, the position behind>>
parse_property_value(input, pos) ==
    LET quoted == pos < Len(input) /\ input[pos + 1] \in {"\"", "'"}
        r == IF quoted THEN scan_value(input, pos + 1, TRUE, input[pos + 1], 0, <<>>)
             ELSE scan_value(input, pos, FALSE, "", 0, <<>>)
    IN  <<trim(r[1]), r[2]>>

\* One turn of the while loop of CSSParser::parse_inline_styles
inline_styles_turn(p) ==
    LET p1 == consume_whitespace(p.input, p.position)
        name == parse_property_name(p.input, p1, <<>>)
        p3 == consume_whitespace(p.input, name[2])
        value == parse_property_value(p.input, consume_whitespace(p.input, p3 + 1))
        p7 == consume_whitespace(p.input, value[2])
    IN  IF p1 >= Len(p.input) THEN [p EXCEPT !.position = p1]
        ELSE IF p3 < Len(p.input) /\ p.input[p3 + 1] = ":"
        THEN [p EXCEPT !.position = IF p7 < Len(p.input) /\ p.input[p7 + 1] = ";"
                                     THEN p7 + 1 ELSE p7,
                       !.declarations = Append(@, <<name[1], value[1]>>)]
        ELSE [p EXCEPT !.position = p3]

\* get_node_styles hands the node's style attribute to parse_inline_styles,
\* which makes a CSSParser for it.
ParseInlineStyles(style_attr) ==
    /\ ~parser.running
    /\ parser' = [input |-> style_attr, position |-> 0, running |-> TRUE,
                  declarations |-> <<>>]
    /\ op' = Call("css_parser_new", TRUE, 0)
    /\ UNCHANGED <<arenaVars, flowVars, scriptVars, styleVars, cascadeVars, text, parsed>>

\* The loop is entered: the position is before the end of the input.
InlineStylesTurn ==
    /\ parser.running
    /\ parser.position < Len(parser.input)
    /\ parser' = inline_styles_turn(parser)
    /\ op' = Call("inline_styles_turn", TRUE, 0)
    /\ UNCHANGED <<arenaVars, flowVars, scriptVars, styleVars, cascadeVars, text, parsed>>

\* The loop is left and the styles are returned.
InlineStylesReturn ==
    /\ parser.running
    /\ parser.position >= Len(parser.input)
    /\ parser' = [parser EXCEPT !.running = FALSE]
    /\ op' = Call("parse_inline_styles", TRUE, Len(parser.declarations))
    /\ UNCHANGED <<arenaVars, flowVars, scriptVars, styleVars, cascadeVars, text, parsed>>

\* ------------------------------------------------ box geometry (layout.rs)
\* Lengths are f32 pixels.  The model counts tenths of a pixel, in which the
\* factors of the code (0.9, 0.6, 1.2) are whole numbers.
Px(n) == n * 10
Min2(a, b) == IF a <= b THEN a ELSE b
Max2(a, b) == IF a >= b THEN a ELSE b

\* str::ends_with and str::contains
ends_with(t, suffix) ==
    Len(t) >= Len(suffix) /\ SubSeq(t, Len(t) - Len(suffix) + 1, Len(t)) = suffix
contains_str(t, pat) ==
    \E i \in 1..(Len(t) - Len(pat) + 1) : SubSeq(t, i, i + Len(pat) - 1) = pat

\* LayoutEngine::parse_length; default and the result in tenths, the
\* viewport vp = <<width, height>> in pixels.
parse_length(value, default, vp) ==
    IF value = <<>> THEN default
    ELSE IF ends_with(value, <<"p", "x">>)
    THEN LET r == parse_f32(SubSeq(value, 1, Len(value) - 2))
         IN  IF r[1] THEN Px(r[2]) ELSE default
    ELSE IF ends_with(value, <<"%">>)
    THEN LET percent == unwrap_or(parse_f32(SubSeq(value, 1, Len(value) - 1)), 0)
         IN  IF contains_str(value, <<"w", "i", "d", "t", "h">>)
             THEN (Px(vp[1]) * percent) \div 100
             ELSE (Px(vp[2]) * percent) \div 100
    ELSE LET r == parse_f32(value)
         IN  IF r[1] THEN Px(r[2]) ELSE default

\* The width of a block whose style has the caller's text as its width, as
\* calculate_block_dimensions resolves it before clamping.
ResolveWidth ==
    /\ viewport # <<0, 0>>
    /\ parsed' = parse_length(text, viewport[1] * 9, viewport)
    /\ op' = Call("resolve_width", TRUE, 0)
    /\ UNCHANGED <<arenaVars, flowVars, scriptVars, styleVars, cascadeVars, text, parser>>

\* The height of a block other than p whose style has the caller's text as
\* its height.
ResolveHeight ==
    /\ viewport # <<0, 0>>
    /\ parsed' = parse_length(text, 1000, viewport)
    /\ op' = Call("resolve_height", TRUE, 0)
    /\ UNCHANGED <<arenaVars, flowVars, scriptVars, styleVars, cascadeVars, text, parser>>

\* LayoutEngine::calculate_block_dimensions
calculate_block_dimensions(node_styles, tag_name, vp) ==
    LET width  == parse_length(node_styles.width, vp[1] * 9, vp)
        height == parse_length(node_styles.height, IF tag_name = "p" THEN 200 ELSE 1000, vp)
    IN  <<Min2(width, vp[1] * 9), Min2(height, vp[2] * 9)>>

\* The cursor stays where the box begins.
block_advance_none(current_y, height, padding, margin) == current_y

\* "Move to next line": current_y once a block box of content height height
\* is placed at current_y.
block_advance(current_y, height, padding, margin) ==
    current_y + height + Px(padding.top) + Px(padding.bottom) + Px(margin.bottom)

\* A LayoutBox by its rectangle, tag and text; of is history, the id of the
\* node the box was made for.
LayoutBox(x, y, width, height, node_type, text_content, of) ==
    [x |-> x, y |-> y, width |-> width, height |-> height,
     node_type |-> node_type, text_content |-> text_content, of |-> of]

\* The cursor layout() threads through layout_node, and the boxes pushed.
Cursor0 == [current_x |-> 0, current_y |-> 0, line_height |-> 0,
            in_inline_context |-> FALSE, boxes |-> <<>>]

\* LayoutEngine::should_skip_element; only layout_node_advanced and
\* should_process_element call it, and layout() reaches neither.
should_skip_element(tag_name) ==
    to_lowercase(tag_name) \in {"script", "style", "meta", "link", "title", "head",
                                "noscript", "template", "svg", "math", "canvas",
                                "iframe", "object", "embed", "applet", "param",
                                "source", "track", "area", "map", "picture", "audio",
                                "video"}

\* The cursor goes to the left edge and y stays where it is.
line_break_same_y(c) == [c EXCEPT !.current_x = 0, !.line_height = 0]

\* The cursor goes to the start of the next line.
line_break(c) ==
    [c EXCEPT !.current_x = 0, !.current_y = @ + c.line_height, !.line_height = 0]

\* layout_node and its loops over the children, on an arena whose child
\* lists form a tree, so that no guard is taken twice.
RECURSIVE layout_node(_, _, _, _)
RECURSIVE layout_children(_, _, _, _)
layout_children(kids, arena, c, vp) ==
    IF kids = <<>> THEN c
    ELSE layout_children(Tail(kids), arena,
                         IF Head(kids) \in DOMAIN arena
                         THEN layout_node(arena[Head(kids)], arena, c, vp) ELSE c,
                         vp)

layout_node(node, arena, c, vp) ==
    LET node_styles  == get_node_styles(node)
        margin  == parse_box_value(node_styles.margin)
        padding == parse_box_value(node_styles.padding)
    IN
    IF IsElement(node) /\ is_block(node)
    THEN LET c1 == IF c.in_inline_context
                   THEN [line_break(c) EXCEPT !.in_inline_context = FALSE]
                   ELSE c
             dim == calculate_block_dimensions(node_styles, node.node_type, vp)
             x == c1.current_x + Px(margin.left)
             y == c1.current_y + Px(margin.top)
             height == dim[2] + Px(padding.top) + Px(padding.bottom)
             box == LayoutBox(x, y, dim[1] + Px(padding.left) + Px(padding.right), height,
                              node.node_type, extract_text_content(node, arena), node.id)
         IN  layout_children(node.children, arena,
                             [c1 EXCEPT !.current_x = 0,
                                        !.current_y = block_advance(y, dim[2], padding, margin),
                                        !.line_height = 0,
                                        !.boxes = Append(@, box)],
                             vp)
    ELSE IF IsElement(node) /\ is_inline(node)
    THEN LET text_content == extract_text_content(node, arena)
             font_size == unwrap_or(parse_f32(node_styles.font_size), 16)
             estimated_width == Len(text_content) * font_size * 6
             estimated_height == font_size * 12
             wrap == c.current_x + estimated_width + Px(margin.left) + Px(margin.right)
                       + Px(padding.left) + Px(padding.right) > vp[1] * 9
             c1 == IF wrap
                   THEN [line_break(c) EXCEPT !.in_inline_context = TRUE]
                   ELSE [c EXCEPT !.in_inline_context = TRUE]
             x == c1.current_x + Px(margin.left)
             width == estimated_width + Px(padding.left) + Px(padding.right)
             height == estimated_height + Px(padding.top) + Px(padding.bottom)
             box == LayoutBox(x, c1.current_y, width, height,
                              node.node_type, text_content, node.id)
         IN  layout_children(node.children, arena,
                             [c1 EXCEPT !.current_x = x + width + Px(margin.right),
                                        !.line_height = Max2(@, height),
                                        !.boxes = Append(@, box)],
                             vp)
    ELSE IF node.node_type = "text"
    THEN LET text_content == trim(node.text_content)
             estimated_width == Len(text_content) * 16 * 6
             estimated_height == 16 * 12
             c1 == IF c.current_x + estimated_width > vp[1] * 9
                   THEN [line_break(c) EXCEPT !.in_inline_context = FALSE]
                   ELSE c
             box == LayoutBox(c1.current_x, c1.current_y, estimated_width, estimated_height,
                              "text", text_content, node.id)
         IN  IF text_content = <<>> THEN c
             ELSE [c1 EXCEPT !.current_x = @ + estimated_width,
                             !.line_height = Max2(@, estimated_height),
                             !.in_inline_context = TRUE,
                             !.boxes = Append(@, box)]
    ELSE layout_children(node.children, arena, c, vp)

\* find_body_node_id: the first <body> in pre-order from node, or None
RECURSIVE find_body_node_id(_, _)
RECURSIVE find_body_in(_, _)
find_body_in(kids, arena) ==
    IF kids = <<>> THEN None
    ELSE LET found == IF Head(kids) \in DOMAIN arena
                      THEN find_body_node_id(arena[Head(kids)], arena) ELSE None
         IN  IF found # None THEN found ELSE find_body_in(Tail(kids), arena)
find_body_node_id(node, arena) ==
    IF IsElement(node) /\ to_lowercase(node.node_type) = "body" THEN node.id
    ELSE find_body_in(node.children, arena)

\* Layout that starts at the given root, whether or not the tree has a body.
layout_at_given_root(dom, arena, vp) ==
    IF dom.id \notin DOMAIN arena THEN <<>>
    ELSE layout_node(arena[dom.id], arena, Cursor0, vp).boxes

\* LayoutEngine::layout
layout(dom, arena, vp) ==
    LET found == find_body_node_id(dom, arena)
        layout_root_id == IF found # None THEN found ELSE dom.id
    IN  IF layout_root_id \notin DOMAIN arena THEN <<>>
        ELSE layout_node(arena[layout_root_id], arena, Cursor0, vp).boxes

\* ------------------------------------------------ the tokenizer (html.rs)
\* StreamingHTMLParser on one chunk.  The buffer is a sequence of characters
\* and processed_pos counts the characters before the one looked at, which
\* is buffer[processed_pos + 1].  A token is its type and its value; the
\* attributes of a tag are not kept.
MaxHtmlLen == 18
Token(token_type, value) == [token_type |-> token_type, value |-> value]

\* str::to_lowercase on the characters of the model
lowercase(t) == [i \in DOMAIN t |-> CASE t[i] = "P" -> "p" [] t[i] = "D" -> "d" [] OTHER -> t[i]]

\* str::find on buffer[pos..]: the offset of the first pat, -1 for None
find(buffer, pos, pat) ==
    LET at == {k \in 0..(Len(buffer) - pos - Len(pat)) :
                  SubSeq(buffer, pos + k + 1, pos + k + Len(pat)) = pat}
    IN  IF at = {} THEN -1 ELSE CHOOSE k \in at : \A j \in at : k <= j

\* StreamingHTMLParser::parse_tag_enhanced: the token as a sequence of one,
\* the empty sequence for None
parse_tag_enhanced(tag_content) ==
    LET trimmed == trim(tag_content)
        content == SubSeq(trimmed, 2, Len(trimmed) - 1)
        space   == find(content, 0, <<" ">>)
        tag_name == lowercase(IF space = -1 THEN content ELSE SubSeq(content, 1, space))
    IN  IF trimmed = <<>> \/ Head(trimmed) # "<" \/ trimmed[Len(trimmed)] # ">" THEN <<>>
        ELSE <<Token(IF ends_with(content, <<"/">>) THEN "SelfClosingTag" ELSE "OpenTag",
                     tag_name)>>

\* StreamingHTMLParser::parse_close_tag
parse_close_tag(tag_content) ==
    LET trimmed == trim(tag_content)
    IN  IF SubSeq(trimmed, 1, 2) # <<"<", "/">> \/ ~ends_with(trimmed, <<">">>) THEN <<>>
        ELSE <<Token("CloseTag", lowercase(SubSeq(trimmed, 3, Len(trimmed) - 1)))>>

\* One turn of the while loop of process_buffer_enhanced on the parser p:
\* the match on the state, the fallback when no progress was made, and the
\* safety check on the position.
process_buffer_turn(buffer, p) ==
    LET pos == p.processed_pos
        len == Len(buffer)
        slice(a, b) == SubSeq(buffer, a + 1, b)
        starts_with(pat) == SubSeq(buffer, pos + 1, pos + Len(pat)) = pat
        text_token(t) == IF trim(t) # <<>> THEN <<Token("Text", t)>> ELSE <<>>
        went(state, to, new) == [state |-> state, processed_pos |-> to,
                                 tokens |-> p.tokens \o new, made_progress |-> TRUE,
                                 break |-> FALSE]
        stays == [state |-> p.state, processed_pos |-> pos, tokens |-> p.tokens,
                  made_progress |-> FALSE, break |-> FALSE]
        rest_is_text == [went(p.state, len, text_token(slice(pos, len))) EXCEPT !.break = TRUE]
        lt_pos == find(buffer, pos, <<"<">>)
        gt_pos == find(buffer, pos, <<">">>)
        after_lt ==
            LET at == pos + lt_pos
                next_char == buffer[at + 2]
                from_lt(pat) == SubSeq(buffer, at + 1, at + Len(pat))
            IN  IF at + 1 < len
                THEN CASE next_char = "/" -> "InCloseTag"
                       [] next_char = "!" ->
                            IF from_lt(<<"<", "!", "-", "-">>) = <<"<", "!", "-", "-">>
                            THEN "InComment"
                            ELSE IF lowercase(from_lt(<<"<", "!", "d", "o", "c", "t", "y", "p", "e">>))
                                      = <<"<", "!", "d", "o", "c", "t", "y", "p", "e">>
                            THEN "InDoctype"
                            ELSE IF from_lt(<<"<", "!", "[", "C", "D", "A", "T", "A", "[">>)
                                      = <<"<", "!", "[", "C", "D", "A", "T", "A", "[">>
                            THEN "InCDATA"
                            ELSE "InTag"
                       [] next_char = "?" -> "InProcessingInstruction"
                       [] OTHER -> "InTag"
                ELSE "InTag"
        \* the states that look for a closing mark: the token's value is the
        \* buffer up to the mark and kept characters of it, and the position
        \* goes skipped characters beyond the mark's begin
        until(close, token_type, kept, skipped, blank_too, state) ==
            LET close_pos == find(buffer, pos, close)
                value == slice(pos, pos + close_pos + kept)
            IN  IF close_pos = -1 THEN stays
                ELSE went(state, pos + close_pos + skipped,
                          IF blank_too \/ trim(value) # <<>>
                          THEN <<Token(token_type, value)>> ELSE <<>>)
        matched ==
            CASE p.state = "Initial" ->
                   IF lt_pos # -1
                   THEN went(after_lt, pos + lt_pos,
                             IF lt_pos > 0 THEN text_token(slice(pos, pos + lt_pos)) ELSE <<>>)
                   ELSE rest_is_text
              [] p.state = "InTag" ->
                   \* the state set for script and style is overwritten by
                   \* Initial at the end of the arm
                   IF gt_pos # -1
                   THEN went("Initial", pos + gt_pos + 1,
                             parse_tag_enhanced(slice(pos, pos + gt_pos + 1)))
                   ELSE stays
              [] p.state = "InCloseTag" ->
                   IF gt_pos # -1
                   THEN went("Initial", pos + gt_pos + 1,
                             parse_close_tag(slice(pos, pos + gt_pos + 1)))
                   ELSE stays
              [] p.state = "InScript" ->
                   until(<<"<", "/", "s", "c", "r", "i", "p", "t", ">">>, "ScriptContent",
                         0, 0, FALSE, "InTag")
              [] p.state = "InStyle" ->
                   until(<<"<", "/", "s", "t", "y", "l", "e", ">">>, "StyleContent",
                         0, 0, FALSE, "InTag")
              [] p.state = "InComment" ->
                   until(<<"-", "-", ">">>, "Comment", 0, 3, TRUE, "Initial")
              [] p.state = "InDoctype" ->
                   until(<<">">>, "Doctype", 1, 1, TRUE, "Initial")
              [] p.state = "InCDATA" ->
                   until(<<"]", "]", ">">>, "Text", 0, 3, TRUE, "Initial")
              [] p.state = "InProcessingInstruction" ->
                   until(<<"?", ">">>, "Comment", 2, 2, TRUE, "Initial")
              [] p.state = "InText" ->
                   IF lt_pos # -1
                   THEN went("InTag", pos + lt_pos, text_token(slice(pos, pos + lt_pos)))
                   ELSE rest_is_text
        fallen == IF matched.made_progress THEN matched
                  ELSE [matched EXCEPT !.state = "Initial", !.processed_pos = pos + 1,
                                       !.tokens = Append(@, Token("Text", <<buffer[pos + 1]>>))]
    IN  IF matched.break THEN matched
        ELSE IF fallen.processed_pos = pos
        THEN [fallen EXCEPT !.state = "Initial", !.processed_pos = pos + 1]
        ELSE fallen

\* process_buffer_enhanced: the new tokens
RECURSIVE process_buffer_loop(_, _, _)
process_buffer_loop(buffer, p, iteration_count) ==
    IF p.processed_pos < Len(buffer) /\ iteration_count < Len(buffer) * 2 /\ ~p.break
    THEN process_buffer_loop(buffer, process_buffer_turn(buffer, p), iteration_count + 1)
    ELSE p.tokens
process_buffer_enhanced(buffer) ==
    process_buffer_loop(buffer, [state |-> "Initial", processed_pos |-> 0, tokens |-> <<>>,
                                 made_progress |-> FALSE, break |-> FALSE], 0)

\* The caller's HTML text grows by a tag or by text.
PushHtml(piece) ==
    /\ Len(text) + Len(piece) <= MaxHtmlLen
    /\ text' = text \o piece
    /\ parsed' = <<>>
    /\ op' = Call("push_html", TRUE, 0)
    /\ UNCHANGED <<arenaVars, flowVars, scriptVars, styleVars, cascadeVars, parser>>

\* HTMLParser::tokenize_streaming: a new StreamingHTMLParser takes the whole
\* input as one chunk.
TokenizeStreaming ==
    /\ parsed' = process_buffer_enhanced(text)
    /\ op' = Call("process_chunk", TRUE, Len(parsed'))
    /\ UNCHANGED <<arenaVars, flowVars, scriptVars, styleVars, cascadeVars, text, parser>>

\* ------------------------------------------------ the DOM builder (html.rs)
\* The arena ids of one builder run are consecutive: DOMNode::new draws them
\* from the counter and no other thread draws in between.
NextDocId == Cardinality(DOMAIN doc) + 1
DocRoom ==
    /\ doc # <<>>
    /\ NextDocId <= MaxDocNodes
    /\ op.name # "layout_pass"
    /\ root_guard \in {"free", "held"}
is_self_closing_tag(tag) == tag \in {"img", "br", "hr", "input", "meta", "link", "area",
                                     "base", "col", "embed", "source", "track", "wbr"}

\* LayoutEngine::new, as BrowserEngine::new calls it.
NewEngine(width, height) ==
    /\ viewport = <<0, 0>>
    /\ viewport' = <<width, height>>
    /\ op' = Call("new_engine", TRUE, 0)
    /\ UNCHANGED <<arenaVars, scriptVars, styleVars, cascadeVars, parseVars, doc, open, flow,
                   root_guard>>

\* The Document root goes into a new arena and build_dom_enhanced starts with
\* the root's id as its stack; the caller hands it a copy of the root and
\* holds no guard.
NewDocument ==
    /\ viewport # <<0, 0>>
    /\ doc = <<>>
    /\ doc' = add_node(<<>>, DOMNode_new(1, "document"))
    /\ open' = <<1>>
    /\ op' = Call("new_document", TRUE, 1)
    /\ UNCHANGED <<arenaVars, scriptVars, styleVars, cascadeVars, parseVars, viewport, flow,
                   root_guard>>

\* HTMLParser::parse up to its call of build_dom_enhanced: the root goes into
\* a new arena, and the root handed to the builder is the guard that
\* arena.get_node(&root_id).unwrap().lock().unwrap() gives, a temporary that
\* lives until the call is over.
ParseStart ==
    /\ doc = <<>>
    /\ doc' = add_node(<<>>, DOMNode_new(1, "document"))
    /\ open' = <<1>>
    /\ root_guard' = "held"
    /\ op' = Call("parse_start", TRUE, 1)
    /\ UNCHANGED <<arenaVars, scriptVars, styleVars, cascadeVars, parseVars, viewport, flow>>

\* HTMLParser::parse after build_dom_enhanced has gone through the tokens:
\* the guard is dropped and a clone of the root is returned.
ParseReturn ==
    /\ root_guard = "held"
    /\ root_guard' = "dropped"
    /\ op' = Call("parse", TRUE, 1)
    /\ UNCHANGED <<arenaVars, scriptVars, styleVars, cascadeVars, parseVars, doc, open,
                   viewport, flow>>

\* The parent's child list gets the id; the new node's parent field is left
\* as DOMNode::new set it.
push_child(arena, p, c) == SetField(arena, p, "children", Append(arena[p].children, c))

\* The builder locks the node on top of its stack to attach the new node to
\* it.  When that is the root and the caller holds the root's guard, the
\* lock is a second one by the same thread: the new node is in the arena and
\* the builder goes no further.
RootRelock == root_guard = "held" /\ open[Len(open)] = 1
Attach(node, pushed, name) ==
    IF RootRelock
    THEN /\ doc' = add_node(doc, node)
         /\ open' = open
         /\ root_guard' \in RelockOutcomes
         /\ op' = Call(name, FALSE, node.id)
    ELSE /\ doc' = push_child(add_node(doc, node), open[Len(open)], node.id)
         /\ open' = IF pushed THEN Append(open, node.id) ELSE open
         /\ root_guard' = root_guard
         /\ op' = Call(name, TRUE, node.id)

\* build_dom_enhanced on an OpenTag token
OpenTag(tag, attributes) ==
    /\ DocRoom
    /\ Attach([DOMNode_new(NextDocId, tag) EXCEPT !.attributes = attributes],
              ~is_self_closing_tag(tag), "open_tag")
    /\ UNCHANGED <<arenaVars, scriptVars, styleVars, cascadeVars, parseVars, viewport, flow>>

\* build_dom_enhanced on a CloseTag token
CloseTag ==
    /\ doc # <<>> /\ op.name # "layout_pass"
    /\ root_guard \in {"free", "held"}
    /\ Len(open) > 1
    /\ open' = SubSeq(open, 1, Len(open) - 1)
    /\ op' = Call("close_tag", TRUE, 0)
    /\ UNCHANGED <<arenaVars, scriptVars, styleVars, cascadeVars, parseVars, doc, viewport,
                   flow, root_guard>>

\* build_dom_enhanced on a Text token: blank text makes no node
TextToken(value) ==
    /\ DocRoom
    /\ IF trim(value) # <<>>
       THEN Attach([DOMNode_new(NextDocId, "text") EXCEPT !.text_content = value],
                   FALSE, "text_token")
       ELSE /\ op' = Call("text_token", FALSE, 0)
            /\ UNCHANGED <<doc, open, root_guard>>
    /\ UNCHANGED <<arenaVars, scriptVars, styleVars, cascadeVars, parseVars, viewport, flow>>

\* build_dom_enhanced on a ScriptContent or StyleContent token: an element
\* "script" or "style" that carries the content as its text and stays closed
ContentToken(tag, value) ==
    /\ DocRoom
    /\ Attach([DOMNode_new(NextDocId, tag) EXCEPT !.text_content = value],
              FALSE, "content_token")
    /\ UNCHANGED <<arenaVars, scriptVars, styleVars, cascadeVars, parseVars, viewport, flow>>

\* LayoutEngine::layout on the document and its arena
LayoutPass ==
    /\ doc # <<>>
    /\ root_guard = "free"
    /\ flow' = layout(doc[1], doc, viewport)
    /\ op' = Call("layout_pass", TRUE, Len(flow'))
    /\ UNCHANGED <<arenaVars, scriptVars, styleVars, cascadeVars, parseVars, doc, open,
                   viewport, root_guard>>

\* Threads that create, clone and edit nodes.
CloneNext ==
    \/ NewNode
    \/ \E k \in {"div"} : Create(k)
    \/ \E p \in ArgIds, c \in ArgIds : AppendChild(p, c)
    \/ \E id \in ArgIds, v \in {<<"x">>} : SetAttribute(id, "class", v)
    \/ \E id \in ArgIds : AddEventListener(id, "click", 7)
    \/ \E id \in ArgIds, v \in {t \in Texts : trim(t) # <<>>} : SetTextContent(id, v)
    \/ \E id \in ArgIds : CloneShallow(id)
    \/ \E id \in ArgIds : CloneStart(id)
    \/ CloneDescend
    \/ CloneReturn

SpecClone == Init /\ [][CloneNext]_vars

\* The script runtime on an arena the DOM builder fills.
ScriptNext ==
    \/ \E k \in {"document", "div"} : Create(k)
    \/ \E p \in ArgIds, c \in ArgIds : AppendChild(p, c)
    \/ \E r \in ArgIds : NewRuntime(r)
    \/ \E t \in ElementTags : CreateElement(t)

SpecScript == Init /\ [][ScriptNext]_vars

\* Selector texts and attribute values of the query runs.
Selectors == {<<"#", "m">>, <<"#", "1">>, <<".", "x">>, <<"p">>}
QueryAttrs == {<<"id", <<"m">>>>, <<"class", <<"x">>>>, <<"class", <<"y", " ", "x">>>>}

\* A caller that builds a graph of nodes, sets id and class attributes and
\* queries it.
QueryNext ==
    \/ \E k \in {"p", "a"} : Create(k)
    \/ \E p \in ArgIds, c \in ArgIds : AppendChild(p, c)
    \/ \E id \in ArgIds, kv \in QueryAttrs : SetAttribute(id, kv[1], kv[2])
    \/ \E r \in ArgIds, sel \in Selectors : QuerySelector(r, sel)
    \/ \E r \in ArgIds, sel \in Selectors : QuerySelectorAll(r, sel)
    \/ \E a \in ArgIds, d \in ArgIds : ContainsNode(a, d)

SpecQuery == Init /\ [][QueryNext]_vars

\* A style resolver that fills two StyleMaps and merges one into the other.
StyleNext ==
    \/ NewStyleMaps
    \/ \E pr \in StyleProps, v \in StyleValues : SetProperty(pr, v)
    \/ \E pr \in StyleProps, v \in StyleValues : SetOtherProperty(pr, v)
    \/ MergeStyles
    \/ \E pr \in StyleProps, v \in StyleValues : ApplyCssProperty(pr, v)

SpecStyle == Init /\ [][StyleNext]_vars

\* A caller that attaches nodes and detaches them again, through the FFI's
\* remove or through the parent's remove_child.
RemoveNext ==
    \/ \E k \in {"div"} : Create(k)
    \/ \E p \in ArgIds, c \in ArgIds : AppendChild(p, c)
    \/ \E id \in ArgIds : RemoveNode(id)
    \/ \E p \in ArgIds, c \in ArgIds : RemoveChild(p, c)

SpecRemove == Init /\ [][RemoveNext]_vars

\* A caller that builds child lists with append_child and insert_before.
InsertNext ==
    \/ \E k \in {"div"} : Create(k)
    \/ \E p \in ArgIds, c \in ArgIds : AppendChild(p, c)
    \/ \E p \in ArgIds, n \in ArgIds, r \in ArgIds : InsertBefore(p, n, r)

SpecInsert == Init /\ [][InsertNext]_vars






\* A page whose elements get ids and whose stylesheet grows rule by rule,
\* between style resolutions.
CascadeNext ==
    \/ \E k \in {"p"} : Create(k)
    \/ \E id \in ArgIds : SetAttribute(id, "id", <<"m">>)
    \/ \E sel \in RuleSelectors, d \in RuleDeclarations : AddRule(sel, d)
    \/ \E id \in ArgIds : ResolveStyles(id)

SpecCascade == Init /\ [][CascadeNext]_vars

\* A caller that writes a margin, padding or border-width shorthand and has
\* it parsed.
BoxNext ==
    \/ \E ch \in BoxChars : PushChar(ch)
    \/ ParseBox

SpecBox == Init /\ [][BoxNext]_vars

\* A page of headings and paragraphs, built and laid out in an 800 by 600
\* viewport: <body> first, headings and paragraphs in the body and in
\* headings, "Title" in headings and "Hello" in paragraphs, and the layout
\* pass once every tag is closed.
NoAttrs == <<>>
StyleAttr(v) == [k \in {"style"} |-> v]
Title == <<"T", "i", "t", "l", "e">>
Hello == <<"H", "e", "l", "l", "o">>
OpenKind == IF open = <<>> THEN "" ELSE doc[open[Len(open)]].node_type
FlowNext ==
    \/ NewEngine(800, 600)
    \/ NewDocument
    \/ NextDocId = 2 /\ OpenTag("body", NoAttrs)
    \/ OpenKind \in {"body", "h1"} /\ \E tag \in {"h1", "p"} : OpenTag(tag, NoAttrs)
    \/ OpenKind = "body" /\ \E m \in MarginAttrs : OpenTag("p", StyleAttr(m))
    \/ CloseTag
    \/ OpenKind = "h1" /\ TextToken(Title)
    \/ OpenKind = "p" /\ TextToken(Hello)
    \/ Len(open) = 1 /\ LayoutPass

SpecFlow == Init /\ [][FlowNext]_vars

\* Paragraphs, inline spans and runs of text at the top level of a document,
\* laid out in a viewport 30 wide, of which "Hi" takes more than the half and
\* "Title" more than the whole.
Hi == <<"H", "i">>
WrapNext ==
    \/ NewEngine(30, 600)
    \/ NewDocument
    \/ Len(open) = 1 /\ OpenTag("p", NoAttrs)
    \/ Len(open) = 1 /\ OpenTag("span", StyleAttr("display: inline"))
    \/ CloseTag
    \/ \E v \in {Hi, Title} : TextToken(v)
    \/ Len(open) = 1 /\ LayoutPass

SpecWrap == Init /\ [][WrapNext]_vars

\* A page with a head, scripts and style sheets, laid out in an 800 by 600
\* viewport.
SkipNext ==
    \/ NewEngine(800, 600)
    \/ NewDocument
    \/ Len(open) = 1 /\ \E tag \in {"head", "body"} : OpenTag(tag, NoAttrs)
    \/ OpenKind = "head" /\ \E tag \in {"title", "meta"} : OpenTag(tag, NoAttrs)
    \/ OpenKind = "body" /\ OpenTag("p", NoAttrs)
    \/ CloseTag
    \/ OpenKind \in {"title", "p"} /\ TextToken(Hi)
    \/ OpenKind \in {"head", "body"} /\ \E tag \in {"script", "style"} : ContentToken(tag, Hi)
    \/ Len(open) = 1 /\ LayoutPass

SpecSkip == Init /\ [][SkipNext]_vars

\* Forests of bodies and texts, each child younger than its parent, and
\* layout passes over them from any id, also one that resolves to no node.
RootNext ==
    \/ \E k \in {"body", "text"} : Create(k)
    \/ \E p \in ArgIds, c \in ArgIds : p < c /\ AppendChild(p, c)
    \/ \E id \in ArgIds : SetTextContent(id, <<" ", "H">>)
    \/ \E r \in ArgIds : LayoutStart(r)
    \/ FindStep
    \/ LayoutRoot
    \/ LayoutDescend
    \/ LayoutReturn

SpecRoot == Init /\ [][RootNext]_vars

\* Runs of text and spans without a style attribute, laid out in an 800 by
\* 600 viewport.
InlineNext ==
    \/ NewEngine(800, 600)
    \/ NewDocument
    \/ Len(open) <= 2 /\ OpenTag("span", NoAttrs)
    \/ CloseTag
    \/ TextToken(Hi)
    \/ Len(open) = 1 /\ LayoutPass

SpecInline == Init /\ [][InlineNext]_vars

\* Width and height values of up to MaxDigits characters, resolved in an 800
\* by 600 viewport.
LengthChars == {"5", "0", "p", "x", "%"}
LengthNext ==
    \/ NewEngine(800, 600)
    \/ \E ch \in LengthChars : PushChar(ch)
    \/ ResolveWidth
    \/ ResolveHeight

SpecLength == Init /\ [][LengthNext]_vars

\* Elements and texts, attached to each other, whose content is then set as
\* text or as HTML.
TextNext ==
    \/ \E k \in {"div", "text"} : Create(k)
    \/ \E p \in ArgIds, c \in ArgIds : AppendChild(p, c)
    \/ \E id \in ArgIds, v \in {Hi, <<>>} : SetTextContent(id, v)
    \/ \E id \in ArgIds, v \in {Hi, <<>>} : SetInnerHtml(id, v)

SpecText == Init /\ [][TextNext]_vars

\* Nodes whose style attribute is any text of up to MaxStyleLen characters
\* out of a name character, the separators and the parentheses.
InlineStyleChars == {"a", ":", ";", "(", ")", " "}
InlineStyleValues == UNION {[1..n -> InlineStyleChars] : n \in 0..MaxStyleLen}
InlineStyleNext ==
    \/ \E v \in InlineStyleValues : ParseInlineStyles(v)
    \/ InlineStylesTurn
    \/ InlineStylesReturn

SpecInlineStyle == Init /\ [][InlineStyleNext]_vars

\* Token lists that go through the builder, called with a copy of the root
\* or from HTMLParser::parse.
ParseNext ==
    \/ NewEngine(800, 600)
    \/ NewDocument
    \/ ParseStart
    \/ \E tag \in {"div", "br"} : OpenTag(tag, NoAttrs)
    \/ CloseTag
    \/ \E v \in {Hi, <<" ">>} : TextToken(v)
    \/ ContentToken("script", Hi)
    \/ ParseReturn

SpecParse == Init /\ [][ParseNext]_vars

\* HTML texts of up to MaxHtmlLen characters made of tags, scripts and
\* text, and their tokens.
HtmlPieces == {<<"<", "p", ">">>, <<"<", "/", "p", ">">>, <<"x">>,
               <<"<", "s", "c", "r", "i", "p", "t", ">">>,
               <<"<", "/", "s", "c", "r", "i", "p", "t", ">">>}
TokensNext ==
    \/ \E piece \in HtmlPieces : PushHtml(piece)
    \/ TokenizeStreaming

SpecTokens == Init /\ [][TokensNext]_vars

\* Threads that attach nodes, one of which may lock a guard twice and fail,
\* and threads that read attributes afterwards.
PoisonNext ==
    \/ Create("div")
    \/ \E p \in ArgIds, c \in ArgIds : AppendChild(p, c)
    \/ \E p \in ArgIds, n \in ArgIds, r \in ArgIds : InsertBefore(p, n, r)
    \/ \E id \in ArgIds : SetAttribute(id, "class", <<"x">>)
    \/ \E id \in ArgIds : GetAttribute(id, "class")

SpecPoison == Init /\ [][PoisonNext]_vars

\* ------------------------------------------------ properties
\* Nodes reachable from the nodes of S through child ids that name a node of
\* within, in at most k steps.
RECURSIVE ReachIn(_, _, _)
ReachIn(S, within, k) ==
    LET T == S \cup {c \in within : \E q \in S \cap DOMAIN nodes : c \in Range(nodes[q].children)}
    IN  IF k = 0 \/ T = S THEN S ELSE ReachIn(T, within, k - 1)

\* The nodes of the subtree of r: r and what its child lists lead to.
Subtree(r) == ReachIn({r}, DOMAIN nodes, Cardinality(DOMAIN nodes))

\* The nodes a step from r's child list leads to.
Below(r) ==
    ReachIn({c \in DOMAIN nodes : r \in DOMAIN nodes /\ c \in Range(nodes[r].children)},
            DOMAIN nodes, Cardinality(DOMAIN nodes))

\* C1: after any sequence of append_child, insert_before, replace_child,
\* remove and clone calls, every node whose parent link is present names a
\* parent that is in the arena and whose child list contains the node's id.
\* A call that stopped for good inside its body, on a guard its own thread
\* holds, has not been applied: it keeps the arena guard (or poisons it) and
\* its half-made update is seen by nobody.
C1_ParentLinksConsistent ==
    mut \notin RelockOutcomes =>
        \A id \in DOMAIN nodes :
            nodes[id].parent # None =>
                /\ nodes[id].parent \in DOMAIN nodes
                /\ id \in Range(nodes[nodes[id].parent].children)

\* A replace_child or remove has taken effect and some node still has a
\* parent link.
C1_Witness ==
    /\ op.name \in {"replace_child", "remove"}
    /\ op.ok
    /\ \E id \in DOMAIN nodes : nodes[id].parent # None

\* C2 as stated: a node that was created and not removed since has as its
\* recorded parent the parent targeted by the last successful append, insert
\* or replace that attached it.
C2_ParentIsLastAttachTarget ==
    \A id \in Ids \cap DOMAIN nodes :
        lastAttach[id] # None => nodes[id].parent = lastAttach[id]

\* C2 amended: the recorded parent is the target of the last successful
\* attach, unless a replace_child has since taken the node out as its old
\* child, which clears the link; a node never attached, or removed since,
\* has no parent.
C2_ParentIsLastAttachUnlessReplaced ==
    \A id \in Ids \cap DOMAIN nodes :
        nodes[id].parent = IF replacedOut[id] THEN None ELSE lastAttach[id]

\* One node was taken out by replace_child and another one is attached.
C2_Witness ==
    \E a \in Ids \cap DOMAIN nodes, b \in Ids \cap DOMAIN nodes :
        /\ a # b
        /\ replacedOut[a]
        /\ lastAttach[b] # None
        /\ nodes[b].parent = lastAttach[b]

\* C3 as stated: with a layout thread and a mutator thread (insert_before,
\* replace_child, remove, sibling lookup) on one arena, no reachable state
\* has a thread blocked forever on a node guard.
C3_NoThreadBlockedForever ==
    /\ lay.pc # "blocked"
    /\ mut = "blocked" =>
          op.name \notin {"insert_before", "replace_child", "remove", "next_sibling"}

\* C4 as stated: a traversal takes a child's guard only after it has released
\* the parent's, so the layout thread never holds two node guards at once.
C4_OneGuardAtATime == Len(lay.held) <= 1

\* The subtree of r is a finite tree: every child id resolves, r is nobody's
\* child and every other node is listed once, by one node.
IsTree(r) ==
    LET T == Subtree(r)
        Listed(n) == {<<q, i>> \in T \X (1..MaxChildren) :
                         i \in DOMAIN nodes[q].children /\ nodes[q].children[i] = n}
    IN  /\ r \in DOMAIN nodes
        /\ \A q \in T : Range(nodes[q].children) \subseteq DOMAIN nodes
        /\ \A n \in T : Cardinality(Listed(n)) = IF n = r THEN 0 ELSE 1

\* C5 as stated: layout of a finite tree with more nodes than MAX_DOM_NODES
\* returns a list of boxes that is not empty.
C5_LayoutOverCeilingNonEmpty ==
    (/\ op.name = "layout"
     /\ op.ok
     /\ IsTree(lay.dom.id)
     /\ Cardinality(Subtree(lay.dom.id)) > MAX_DOM_NODES) => boxes # <<>>

\* Some node is reachable from itself through child ids.
CyclicArena == \E n \in DOMAIN nodes : n \in Below(n)

\* C6 as stated: on an arena in which a node is reachable from itself, a
\* layout pass stops early and returns; it neither waits forever nor panics.
C6_LayoutOnCycleReturns == CyclicArena => lay.pc \notin RelockOutcomes

\* C10 as stated, second half: append_child with a child id that is not in
\* the arena is a no-op, so no child list and no parent link changes.
C10_AppendAbsentIsNoOp ==
    [][\A p \in ArgIds, c \in ArgIds :
          (AppendChild(p, c) /\ ~Present(c)) => nodes' = nodes]_vars

SourceKids(s) == SelectSeq(nodes[s].children, LAMBDA k : k \in cl.pre)

\* The subtree under clone c has the shape of the subtree under source s:
\* same node type, text and attributes, and as many children as s has
\* resolvable ones, pairwise of the same shape; its nodes are new and in the
\* arena.
RECURSIVE SameShape(_, _, _)
SameShape(s, c, depth) ==
    /\ c \in DOMAIN nodes
    /\ c \notin cl.pre
    /\ nodes[c].node_type = nodes[s].node_type
    /\ nodes[c].text_content = nodes[s].text_content
    /\ nodes[c].attributes = nodes[s].attributes
    /\ Len(nodes[c].children) = Len(SourceKids(s))
    /\ depth > 0 =>
         \A i \in DOMAIN nodes[c].children :
             SameShape(SourceKids(s)[i], nodes[c].children[i], depth - 1)

\* C8 as stated: a deep clone that returned made a subtree of the shape of
\* the source, out of nodes whose ids were not in the arena before the call
\* and all of which resolve.
C8_DeepCloneSameShape ==
    (op.name = "clone_deep" /\ op.ok) =>
        /\ SameShape(cl.src, op.res, Cardinality(cl.pre))
        /\ Subtree(op.res) \cap cl.pre = {}

\* The nodes of the source subtree of the last deep clone.
SourceNodes == ReachIn({cl.src}, cl.pre, Cardinality(cl.pre))

C12_ReplaceChildSwapsInPlace ==
    [][\A p \in ArgIds, n \in ArgIds, o \in ArgIds :
          (/\ ReplaceChild(p, n, o)
           /\ Present(p) /\ Present(n) /\ Present(o)
           /\ mut' = "idle") =>
              LET old == nodes[p].children
              IN  IF o \in Range(old)
                  THEN /\ nodes'[p].children = [old EXCEPT ![IndexOf(old, o)] = n]
                       /\ nodes'[n].parent = p
                       /\ nodes'[o].parent = None
                  ELSE nodes' = nodes]_vars

\* C13 as stated: insert_before called with a parent or new id, or
\* replace_child called with a parent, new or old id, that names no node of
\* the arena returns as a no-op: no child list gains or loses an entry and
\* no parent link changes.
C13_AbsentIdIsNoOp ==
    [][\A p \in ArgIds, n \in ArgIds, x \in ArgIds :
          (/\ \/ InsertBefore(p, n, x) /\ (~Present(p) \/ ~Present(n))
              \/ ReplaceChild(p, n, x) /\ (~Present(p) \/ ~Present(n) \/ ~Present(x))
           /\ mut' = "idle") =>
              \A id \in DOMAIN nodes :
                  /\ nodes'[id].children = nodes[id].children
                  /\ nodes'[id].parent = nodes[id].parent]_vars

\* C14 as stated: a remove of id that returned, through dom_remove_node or
\* through remove_child on the node id's parent link names, leaves id in no
\* position of that parent's child list and id without a parent link, and
\* leaves as they were id's own child list, the parent link of every other
\* node under id, and the set of ids that resolve.
C14_RemoveDetachesOnlyId ==
    [][\A id \in ArgIds :
          (/\ Present(id)
           /\ \/ RemoveNode(id)
              \/ nodes[id].parent # None /\ RemoveChild(nodes[id].parent, id)
           /\ mut' = "idle") =>
              /\ nodes[id].parent \in DOMAIN nodes =>
                    id \notin Range(nodes'[nodes[id].parent].children)
              /\ nodes'[id].parent = None
              /\ nodes'[id].children = nodes[id].children
              /\ \A d \in Below(id) \ {id} : nodes'[d].parent = nodes[d].parent
              /\ DOMAIN nodes' = DOMAIN nodes]_vars

\* C15 as stated: contains(ancestor, descendant), called with two ids of the
\* arena, returns, and returns true exactly when descendant is ancestor or is
\* reached from it along child lists.
C15_ContainsIsReachability ==
    [][\A a \in ArgIds, d \in ArgIds :
          (ContainsNode(a, d) /\ Present(a) /\ Present(d)) =>
              /\ op'.ok
              /\ (op'.res = 1) <=> (d \in Subtree(a))]_vars

\* C16 as stated: the id a create operation returns, from the DOM builder's
\* create or from the script runtime's create_element, names a node of the
\* arena as soon as the call has returned, and that node has no parent link.
C16_CreatedIdResolves ==
    (op.name \in {"create", "create_element"} /\ op.ok) =>
        /\ op.res \in DOMAIN nodes
        /\ nodes[op.res].parent = None

\* The selector dialect: #v is a node whose id attribute is v, .c a node
\* with c among the blank-separated tokens of its class attribute, a bare
\* name an element with that tag.
Matches(node, selector) ==
    IF Head(selector) = "#"
    THEN "id" \in DOMAIN node.attributes /\ node.attributes["id"] = Tail(selector)
    ELSE IF Head(selector) = "."
    THEN /\ "class" \in DOMAIN node.attributes
         /\ Tail(selector) \in Range(split_whitespace(node.attributes["class"]))
    ELSE IsElement(node) /\ TagChars(node.node_type) = selector

\* The nodes under r in depth-first pre-order, r first, to the given depth;
\* ids that name no node are passed over.
RECURSIVE PreOrder(_, _)
RECURSIVE PreOrderOf(_, _)
PreOrder(r, depth) ==
    IF r \notin DOMAIN nodes \/ depth = 0 THEN <<>>
    ELSE <<r>> \o PreOrderOf(nodes[r].children, depth - 1)
PreOrderOf(kids, depth) ==
    IF kids = <<>> THEN <<>>
    ELSE PreOrder(Head(kids), depth) \o PreOrderOf(Tail(kids), depth)

\* The matches of the selector under r, in pre-order.
AllMatches(r, selector) ==
    SelectSeq(PreOrder(r, Cardinality(DOMAIN nodes)), LAMBDA n : Matches(nodes[n], selector))

\* C17 as stated: a single-result query on a node returns, and returns the
\* first node of the pre-order under it that matches the selector in the
\* dialect, or not-found when none matches.
C17_QueryFirstMatch ==
    [][\A r \in ArgIds, sel \in Selectors :
          QuerySelector(r, sel) =>
              /\ op'.ok
              /\ op'.res = IF AllMatches(r, sel) = <<>> THEN None
                           ELSE Head(AllMatches(r, sel))]_vars

\* C18 as stated: an "all" query on a node returns, and returns exactly the
\* nodes under it that match the selector in the dialect of the single-result
\* query, in pre-order; so the node a single-result query finds is the first
\* element of the "all" result.
C18_QueryAllIsAllMatches ==
    [][\A r \in ArgIds, sel \in Selectors :
          QuerySelectorAll(r, sel) =>
              /\ op'.ok
              /\ op'.res = AllMatches(r, sel)
              /\ query_selector(nodes, {r}, r, sel).st = "found" =>
                    /\ op'.res # <<>>
                    /\ Head(op'.res) = query_selector(nodes, {r}, r, sel).id]_vars

\* C19 as stated: the node a clone call returns, deep or shallow, and every
\* node a deep clone made, has no event-listener registration.
C19_CloneHasNoListeners ==
    /\ (op.name = "clone_shallow" /\ op.ok) => DOMAIN nodes[op.res].event_listeners = {}
    /\ (op.name = "clone_deep" /\ op.ok) =>
          \A c \in cl.made : DOMAIN nodes[c].event_listeners = {}

\* C20: merging the overlay StyleMap other into the base StyleMap styles
\* sets each property to other's value when that value is not empty and
\* leaves the base value as it was when other's value is the empty string.
C20_MergeOverlaysNonEmpty ==
    [][MergeStyles =>
          \A f \in DOMAIN styles :
              styles'[f] = IF other[f] # "" THEN other[f] ELSE styles[f]]_vars

\* A merge has run in which the overlay's empty color left the base's black
\* in place while its display replaced the base's.
C20_Witness ==
    /\ op.name = "merge"
    /\ other.color = ""
    /\ styles.color = "black"
    /\ other.display = "inline"
    /\ styles.display = "inline"

\* The positions of the rules that match the node and declare the property.
Declaring(node, property) ==
    {i \in DOMAIN stylesheet :
        /\ matches_selector(node, stylesheet[i].selector)
        /\ property \in DOMAIN stylesheet[i].declarations}

Max(S) == CHOOSE x \in S : \A y \in S : y <= x

NumbersOf(t) == [i \in DOMAIN split_whitespace(t) |-> parse_digits(split_whitespace(t)[i], 0)]

\* C22: parse_box_value of a shorthand of blank-separated numbers gives all
\* four sides n for one number n; top = bottom = a and left = right = b for
\* two numbers a b; top, right, bottom, left in that order for four; and all
\* four sides zero for any other count (0, 3, 5 or more).
C22_ParseBoxExpansion ==
    op.name = "parse_box_value" =>
        LET n == NumbersOf(text)
        IN  /\ Len(n) = 1 => parsed = [top |-> n[1], right |-> n[1], bottom |-> n[1], left |-> n[1]]
            /\ Len(n) = 2 => parsed = [top |-> n[1], right |-> n[2], bottom |-> n[1], left |-> n[2]]
            /\ Len(n) = 4 => parsed = [top |-> n[1], right |-> n[2], bottom |-> n[3], left |-> n[4]]
            /\ Len(n) \notin {1, 2, 4} => parsed = [top |-> 0, right |-> 0, bottom |-> 0, left |-> 0]

\* A shorthand of four numbers, not all alike, was parsed, and one of five
\* numbers gave zeros.
C22_Witness ==
    /\ op.name = "parse_box_value"
    /\ Len(NumbersOf(text)) = 4
    /\ parsed.top # parsed.bottom
    /\ parsed.left # parsed.right
    /\ parsed.top # parsed.right

\* The block boxes of the last layout pass, in the order they were pushed,
\* and the margin of the element a box was made for.
BlockBoxes == SelectSeq(flow, LAMBDA b : IsElement(doc[b.of]) /\ is_block(doc[b.of]))
MarginOf(b) == parse_box_value(get_node_styles(doc[b.of]).margin)

\* C23 (as stated): of any two consecutive block elements with no explicit
\* height the second box starts at or below the bottom of the first,
\* box2.y >= box1.y + box1.height.
C23_BlocksDoNotOverlap ==
    op.name = "layout_pass" =>
        \A i \in 1..(Len(BlockBoxes) - 1) :
            BlockBoxes[i + 1].y >= BlockBoxes[i].y + BlockBoxes[i].height

\* C23 (amended): the same, for two consecutive block elements of which the
\* first has no negative bottom margin and the second no negative top margin.
C23_BlocksDoNotOverlapUnlessNegativeMargin ==
    op.name = "layout_pass" =>
        \A i \in 1..(Len(BlockBoxes) - 1) :
            MarginOf(BlockBoxes[i]).bottom >= 0 /\ MarginOf(BlockBoxes[i + 1]).top >= 0
                => BlockBoxes[i + 1].y >= BlockBoxes[i].y + BlockBoxes[i].height

\* Two paragraphs in a row were laid out, the first with a margin, the second
\* with text in the first between them, and the second lies below the first.
C23_Witness ==
    /\ op.name = "layout_pass"
    /\ \E i \in 1..(Len(BlockBoxes) - 1) :
          /\ MarginOf(BlockBoxes[i]).bottom > 0
          /\ MarginOf(BlockBoxes[i + 1]).top = 0
          /\ BlockBoxes[i].text_content # <<>>
          /\ BlockBoxes[i + 1].y > BlockBoxes[i].y + BlockBoxes[i].height

\* Boxes i..j of the last layout pass are inline boxes (of text nodes and
\* inline elements) pushed one after another, the first of them the first
\* box of its line.
IsInlineBox(b) == ~(IsElement(doc[b.of]) /\ is_block(doc[b.of]))
InlineRun(i, j) ==
    /\ i \in DOMAIN flow /\ j \in DOMAIN flow /\ i <= j
    /\ \A k \in i..j : IsInlineBox(flow[k])
    /\ i = 1 \/ ~IsInlineBox(flow[i - 1]) \/ flow[i - 1].y # flow[i].y
RECURSIVE WidthSum(_, _)
WidthSum(i, j) == IF i > j THEN 0 ELSE flow[i].width + WidthSum(i + 1, j)

IsTitleHelloPage ==
    /\ viewport = <<800, 600>>
    /\ DOMAIN doc = 1..6
    /\ \A i \in DOMAIN doc : doc[i].attributes = <<>>
    /\ doc[1].node_type = "document" /\ doc[1].children = <<2>>
    /\ doc[2].node_type = "body" /\ doc[2].children = <<3, 5>>
    /\ doc[3].node_type = "h1" /\ doc[3].children = <<4>>
    /\ doc[4].node_type = "text" /\ doc[4].text_content = Title /\ doc[4].children = <<>>
    /\ doc[5].node_type = "p" /\ doc[5].children = <<6>>
    /\ doc[6].node_type = "text" /\ doc[6].text_content = Hello /\ doc[6].children = <<>>

\* C25: the layout of body > (h1 > "Title", p > "Hello") with default styles
\* in an 800 by 600 viewport is exactly two block boxes, for h1 and p in that
\* order, each followed by a text box with "Title" and "Hello", and the p
\* box's y is strictly greater than the h1 box's y plus its height.
C25_TitleHelloBoxes ==
    op.name = "layout_pass" /\ IsTitleHelloPage =>
        /\ Len(flow) = 4
        /\ flow[1].node_type = "h1" /\ flow[3].node_type = "p"
        /\ flow[2].node_type = "text" /\ flow[2].text_content = Title
        /\ flow[4].node_type = "text" /\ flow[4].text_content = Hello
        /\ flow[3].y > flow[1].y + flow[1].height

\* What the pass returns for that page: a block box for body first, then
\* the four boxes in the order stated, p below h1.
C25_Observed ==
    op.name = "layout_pass" /\ IsTitleHelloPage =>
        /\ Len(flow) = 5
        /\ flow[1].node_type = "body" /\ flow[1].height = 1000
        /\ flow[2].node_type = "h1" /\ flow[4].node_type = "p"
        /\ flow[3].node_type = "text" /\ flow[3].text_content = Title
        /\ flow[5].node_type = "text" /\ flow[5].text_content = Hello
        /\ flow[4].y > flow[2].y + flow[2].height

\* C26: a layout pass never returns more than MAX_LAYOUT_BOXES boxes; at the
\* ceiling the traversal stops and returns the boxes produced so far.
C26_BoxCeiling ==
    op.name = "layout_pass" => Len(flow) <= MAX_LAYOUT_BOXES

\* The tags the claim lists as the skip-set.
SkipSet == {"script", "style", "meta", "link", "title", "head", "noscript", "template",
            "svg", "math", "canvas", "iframe", "object", "embed"}

\* C27: no box returned by layout has a skip-set tag as its node type.
C27_NoSkipSetBox ==
    op.name = "layout_pass" => \A i \in DOMAIN flow : flow[i].node_type \notin SkipSet

\* C28: when the id chosen as layout root does not resolve in the arena,
\* layout returns an empty box list and does not crash: the step that looks
\* the root up ends the pass, with no box, no panic and the arena released.
C28_UnresolvedRootGivesEmpty ==
    [][lay.pc = "root" /\ ~Present(lay.root) /\ lay' # lay
         => /\ lay'.pc = "done"
            /\ boxes' = <<>>
            /\ op' = Call("layout", TRUE, 0)
            /\ arenaLock' = "free"
            /\ poisoned' = poisoned]_vars

\* A pass from an id the arena does not hold returned, with no boxes, while
\* the arena holds other nodes.
C28_Witness ==
    /\ op = Call("layout", TRUE, 0)
    /\ lay.pc = "done"
    /\ ~Present(lay.root)
    /\ lay.root # 0
    /\ nodes # <<>>
    /\ boxes = <<>>

\* The boxes of a pass by tag and text, as the pure traversal gives them.
BoxesOf(dom, arena) ==
    LET bs == layout(dom, arena, <<800, 600>>)
    IN  [i \in DOMAIN bs |-> [node_type |-> bs[i].node_type,
                               text_content |-> bs[i].text_content]]

C30_UnrelatedNodesUnaffected ==
    op.name = "panic" /\ Present(op.res) => op.res \in poisoned

\* The ids of the tree under id in depth-first pre-order, a node before its
\* children and the children in list order.
RECURSIVE DocOrder(_, _, _)
RECURSIVE DocOrderOfAll(_, _, _)
DocOrderOfAll(kids, arena, depth) ==
    IF kids = <<>> THEN <<>>
    ELSE DocOrder(Head(kids), arena, depth) \o DocOrderOfAll(Tail(kids), arena, depth)
DocOrder(id, arena, depth) ==
    IF id \notin DOMAIN arena \/ depth = 0 THEN <<>>
    ELSE <<id>> \o DocOrderOfAll(arena[id].children, arena, depth - 1)

\* The root layout is to choose in the document: the first body of the
\* pre-order if there is one, the document node otherwise.
ChosenRoot ==
    LET order  == DocOrder(1, doc, MaxDocNodes + 1)
        bodies == SelectSeq(order, LAMBDA n : doc[n].node_type = "body")
    IN  IF bodies # <<>> THEN Head(bodies) ELSE 1

\* C31: layout starts at the first element with tag body in depth-first
\* pre-order of the given tree, and at the given root itself when the tree
\* has no body; the boxes of a pass are made for nodes of the chosen root's
\* subtree, for each of its elements and non-blank texts, and a chosen body
\* has the first box.
C31_LayoutStartsAtFirstBody ==
    op.name = "layout_pass" =>
        LET under == Range(DocOrder(ChosenRoot, doc, MaxDocNodes + 1))
        IN  /\ {flow[i].of : i \in DOMAIN flow}
                 = {n \in under : IsElement(doc[n]) \/ trim(doc[n].text_content) # <<>>}
            /\ doc[ChosenRoot].node_type = "body" => flow[1].of = ChosenRoot

\* A pass over a document with a head that has a child, then a body with a
\* child, then a second body.
C31_Witness ==
    /\ op.name = "layout_pass"
    /\ \E h \in DOMAIN doc, b \in DOMAIN doc, b2 \in DOMAIN doc :
          /\ h < b /\ b < b2
          /\ doc[h].node_type = "head" /\ doc[h].children # <<>>
          /\ doc[b].node_type = "body" /\ doc[b].children # <<>>
          /\ doc[b2].node_type = "body"
          /\ ChosenRoot = b
    /\ flow # <<>>

\* C32 as stated: an element with an inline tag and no explicit display is
\* laid out inline; when its box comes right after a text box and fits within
\* 90% of the viewport width behind it, it is on the text's line, at the x
\* where the text ends.
C32_InlineTagsFlowInline ==
    op.name = "layout_pass" =>
        \A i \in 2..Len(flow) :
            (/\ doc[flow[i].of].node_type \in InlineTags
             /\ "style" \notin DOMAIN doc[flow[i].of].attributes
             /\ flow[i - 1].node_type = "text"
             /\ flow[i - 1].x + flow[i - 1].width + Len(flow[i].text_content) * 16 * 6
                   <= viewport[1] * 9)
            => /\ flow[i].y = flow[i - 1].y
               /\ flow[i].x = flow[i - 1].x + flow[i - 1].width

\* What the text of a length stands for, in tenths of a pixel, when it is
\* resolved along a viewport side of the given size.
LengthOf(value, default, side) ==
    LET body(k) == SubSeq(value, 1, Len(value) - k)
    IN  IF IsDigits(value) THEN Px(parse_digits(value, 0))
        ELSE IF ends_with(value, <<"p", "x">>) /\ IsDigits(body(2))
        THEN Px(parse_digits(body(2), 0))
        ELSE IF ends_with(value, <<"%">>) /\ IsDigits(body(1))
        THEN (Px(side) * parse_digits(body(1), 0)) \div 100
        ELSE default

\* C33 as stated: resolving "Npx" gives N; "N%" gives N percent of the
\* viewport width for a width and of the viewport height for a height; a
\* plain number gives that number; anything else gives the default.
C33_LengthResolution ==
    /\ op.name = "resolve_width" => parsed = LengthOf(text, viewport[1] * 9, viewport[1])
    /\ op.name = "resolve_height" => parsed = LengthOf(text, 1000, viewport[2])

\* Every id of a child list of the arena is listed once, by one node, and
\* the node it names, when present, has the listing node as its parent.
WellLinked(arena) ==
    \A p \in DOMAIN arena : \A i \in DOMAIN arena[p].children :
        LET c == arena[p].children[i]
        IN  /\ \A j \in DOMAIN arena[p].children : arena[p].children[j] = c => j = i
            /\ \A q \in DOMAIN arena : c \in Range(arena[q].children) => q = p
            /\ c \in DOMAIN arena => arena[c].parent = p

\* C34 as stated: in every arena state reachable through the DOM builder and
\* the mutation API, each id of a child list occurs there once and in no
\* other child list, and the node it names has its parent link set to the
\* listing node.
C34_ChildListsWellLinked == WellLinked(doc) /\ WellLinked(nodes)

\* C35 as stated: no sequence of append_child, insert_before and
\* replace_child calls makes a node reachable from itself through child
\* edges.  A call that stopped for good inside its body has not been applied.
C35_ChildRelationAcyclic ==
    mut \notin RelockOutcomes => \A n \in DOMAIN nodes : n \notin Below(n)

\* C36 as stated: insert_before and replace_child return for every
\* combination of argument ids, also when the new or the old id is the
\* parent's: the call never locks a node guard its thread already holds.
C36_InsertAndReplaceReturn ==
    op.name \in {"insert_before", "replace_child"} => mut \notin RelockOutcomes

\* C37 as stated: after set_text_content or set_inner_html on an element, the
\* element's child list is exactly one new text node whose parent is the
\* element, and no former child still has the element as its parent.
C37_ContentReplacesChildren ==
    [][\A id \in ArgIds, v \in {Hi, <<>>} :
          (/\ SetTextContent(id, v) \/ SetInnerHtml(id, v)
           /\ Present(id)
           /\ nodes[id].node_type # "text")
          => /\ Len(nodes'[id].children) = 1
             /\ LET t == nodes'[id].children[1]
                IN  /\ t \notin DOMAIN nodes
                    /\ t \in DOMAIN nodes'
                    /\ nodes'[t].node_type = "text"
                    /\ nodes'[t].parent = id
             /\ \A c \in Range(nodes[id].children) \cap DOMAIN nodes' :
                    nodes'[c].parent # id]_vars

\* C38 as stated: resolving the style of a node terminates for every value
\* of its inline style attribute.  The position never goes back and the loop
\* ends when it has reached the end of the input, so the loop terminates
\* exactly when every turn that is begun before the end moves the position.
C38_InlineStylesTerminate ==
    (parser.running /\ parser.position < Len(parser.input))
        => inline_styles_turn(parser).position > parser.position

\* C39 as stated: HTMLParser::parse returns a document for every input
\* within the size limits, also for inputs with a top-level element, text or
\* script token: the builder never waits on the root's guard while its
\* caller holds it.
C39_ParseReturns == root_guard \notin RelockOutcomes

\* The tags of an HTML text in input order: a close tag for each </name>
\* and an open tag for each other <name ...>.
RECURSIVE TagsIn(_)
TagsIn(t) ==
    LET lt == find(t, 0, <<"<">>)
        gt == find(t, lt, <<">">>)
        inner == SubSeq(t, lt + 2, lt + gt)
        named(n) == IF find(n, 0, <<" ">>) = -1 THEN n ELSE SubSeq(n, 1, find(n, 0, <<" ">>))
    IN  IF lt = -1 \/ gt = -1 THEN <<>>
        ELSE <<IF inner # <<>> /\ Head(inner) = "/"
               THEN <<"close", lowercase(Tail(inner))>>
               ELSE <<"open", lowercase(named(inner))>>>>
             \o TagsIn(SubSeq(t, lt + gt + 2, Len(t)))

\* The tag tokens among the tokens, open and self-closing ones alike.
TagTokens(tokens) ==
    LET tags == SelectSeq(tokens, LAMBDA k :
                    k.token_type \in {"OpenTag", "SelfClosingTag", "CloseTag"})
    IN  [i \in DOMAIN tags |->
            <<IF tags[i].token_type = "CloseTag" THEN "close" ELSE "open", tags[i].value>>]

\* C40 as stated: the tokenizer emits one OpenTag (or SelfClosingTag) token
\* for each <name ...> and one CloseTag token for each </name> of the input,
\* in input order, wherever the tag sits.
C40_OneTokenPerTag ==
    op.name = "process_chunk" => TagTokens(parsed) = TagsIn(text)

=============================================================================
